---- MODULE Spec2Model ----
(***************************************************************************)
(* Model of cli-agent-orchestrator's tmux client (clients/tmux.py) and of  *)
(* the Kiro CLI provider's status classifier and message extractor         *)
(* (providers/kiro_cli.py).                                                *)
(*                                                                         *)
(* Text is a sequence of Unicode code points (Python str); a byte string   *)
(* is a sequence of numbers 0..255.  Positions are 1-based: position p     *)
(* here is Python offset p-1, so every comparison of two positions has the *)
(* same outcome as in the code.                                            *)
(***************************************************************************)
EXTENDS Integers, Sequences, FiniteSets, TLC

VARIABLES
    \* ---- TmuxClient.send_keys (one record per caller) ----
    pc,         \* pc[c]: where caller c stands inside send_keys
    keys,       \* keys[c]: the text caller c is sending
    session_name, \* session_name[c], window_name[c]: the call's arguments
    window_name,
    buf_name,   \* buf_name[c]: the staging buffer name the call chose
    exc,        \* exc[c]: the exception in flight in caller c, or "none"
    ret,        \* ret[c]: how caller c's last call ended
    cmds,       \* cmds[c]: the subprocess.run invocations of c's current/last call
    buffers,    \* the tmux server's paste buffers: name -> bytes
    pane,       \* pane[t]: the input events delivered to pane t
    ncalls,     \* number of send_keys calls started
    issued,     \* the values uuid.uuid4() has returned so far
    \* ---- TmuxClient's session and window operations ----
    server,     \* the tmux server behind self.server: session name -> its windows
    last,       \* the last session/window operation: arguments, multiplexer
                \* calls it made, server state before it, and how it ended
    \* ---- KiroCliProvider ----
    capture,    \* the raw text tmux capture-pane returns for the window
    nfrags,     \* number of output fragments the pane has received
    status,     \* result of the last get_status on this capture, or "none"
    extracted,  \* result of the last extract_last_message_from_script, or none
    provider,   \* the KiroCliProvider object: _agent_profile, _idle_prompt_pattern,
                \* _permission_prompt_pattern, _initialized
    pcall,      \* the last provider operation: arguments, the tmux_client calls
                \* it made, the provider before it, and how it ended
    ppc         \* where the caller stands inside initialize, or "none"

tmuxVars == <<pc, keys, session_name, window_name, buf_name, exc, ret, cmds, buffers, pane,
              ncalls, issued>>
kiroVars == <<capture, nfrags, status, extracted, provider, pcall, ppc>>
providerVars == <<provider, pcall, ppc>>
serverVars == <<server, last>>
vars == <<pc, keys, session_name, window_name, buf_name, exc, ret, cmds, buffers,
          pane, ncalls, issued, server, last, capture, nfrags, status, extracted,
          provider, pcall, ppc>>

-----------------------------------------------------------------------------
(* Bounds *)

MaxFrags == 4       \* output fragments a capture is made of
MaxTextLen == 2     \* code points in a send_keys text
MaxCalls == 1       \* send_keys calls started in one behaviour
MaxWindows == 2     \* windows in one session
MaxPolls == 2       \* polls of wait_until_status that find another status
MaxReplyLen == 3    \* characters of a reply

-----------------------------------------------------------------------------
(* Characters *)

BEL == 7
LF == 10
ESC == 27
BANG == 33
PERCENT == 37
DOT == 46
SLASH == 47
COLON == 58
SEMICOLON == 59
GT == 62
QUESTION == 63
LBRACKET == 91
BACKSLASH == 92
RBRACKET == 93
LOWER_M == 109
LOWER_N == 110
LOWER_T == 116
LOWER_Y == 121
SMALL_LAMBDA == 955

\* re's \s on str patterns and str.isspace() agree; these are the white-space
\* code points up to U+00A0.
IsSpace(c) == c \in {9, 10, 11, 12, 13, 28, 29, 30, 31, 32, 133, 160}

\* \d and [0-9] (the model's alphabet has ASCII digits only)
IsDigit(c) == c \in 48..57

\* [a-zA-Z]
IsAlpha(c) == c \in (65..90) \cup (97..122)

\* CONTROL_CHAR_PATTERN = [\x00-\x1f\x7f-\x9f]
IsControl(c) == c \in (0..31) \cup (127..159)

\* the class [0-9;] of ANSI_CODE_PATTERN
IsAnsiParam(c) == IsDigit(c) \/ c = SEMICOLON

\* the class [?0-9;] of ESCAPE_SEQUENCE_PATTERN
IsEscParam(c) == IsDigit(c) \/ c = SEMICOLON \/ c = QUESTION

\* str.lower() on one code point: an ASCII capital becomes its small letter
\* (the other code points of the model's alphabet have no lower-case form)
LowerChar(c) == IF c \in 65..90 THEN c + 32 ELSE c

Lower(s) == [i \in 1..Len(s) |-> LowerChar(s[i])]

-----------------------------------------------------------------------------
(* String helpers *)

\* lit occurs in s at position i
LitAt(s, i, lit) ==
    /\ i >= 1
    /\ i + Len(lit) - 1 <= Len(s)
    /\ \A k \in 1..Len(lit) : s[i + k - 1] = lit[k]

\* `sub in s`
Contains(s, sub) == \E i \in 1..(Len(s) + 1) : LitAt(s, i, sub)

\* a greedy \s* from position i: the position after the white-space run
RECURSIVE SkipSpace(_, _)
SkipSpace(s, i) ==
    IF i <= Len(s) /\ IsSpace(s[i]) THEN SkipSpace(s, i + 1) ELSE i

\* a greedy \d* from position i
RECURSIVE SkipDigits(_, _)
SkipDigits(s, i) ==
    IF i <= Len(s) /\ IsDigit(s[i]) THEN SkipDigits(s, i + 1) ELSE i

\* a greedy [0-9;]* from position i
RECURSIVE SkipAnsiParams(_, _)
SkipAnsiParams(s, i) ==
    IF i <= Len(s) /\ IsAnsiParam(s[i]) THEN SkipAnsiParams(s, i + 1) ELSE i

\* a greedy [?0-9;]* from position i
RECURSIVE SkipEscParams(_, _)
SkipEscParams(s, i) ==
    IF i <= Len(s) /\ IsEscParam(s[i]) THEN SkipEscParams(s, i + 1) ELSE i

\* the least element of a set of positions, or 0 when there is none
First(S) == IF S = {} THEN 0 ELSE CHOOSE x \in S : \A y \in S : x <= y

\* the first position >= i holding character c, or 0
FirstChar(s, i, c) == First({j \in i..Len(s) : s[j] = c})

\* the first position >= i where lit occurs, or 0
FirstLit(s, i, lit) == First({j \in i..Len(s) : LitAt(s, j, lit)})

\* str.strip(): drop leading and trailing white space
RECURSIVE StripLeft(_)
StripLeft(s) ==
    IF s # <<>> /\ IsSpace(Head(s)) THEN StripLeft(Tail(s)) ELSE s

RECURSIVE StripRight(_)
StripRight(s) ==
    IF s # <<>> /\ IsSpace(s[Len(s)]) THEN StripRight(SubSeq(s, 1, Len(s) - 1))
    ELSE s

Strip(s) == StripRight(StripLeft(s))

\* an Optional value: None is <<>>, the value v is <<v>>
None == <<>>
Some(v) == <<v>>

-----------------------------------------------------------------------------
(* providers/kiro_cli.py: module constants and compiled patterns *)

\* "Kiro is having trouble responding right now"
ERROR_INDICATORS ==
    << <<75, 105, 114, 111, 32, 105, 115, 32, 104, 97, 118, 105, 110, 103, 32,
         116, 114, 111, 117, 98, 108, 101, 32, 114, 101, 115, 112, 111, 110,
         100, 105, 110, 103, 32, 114, 105, 103, 104, 116, 32, 110, 111, 119>> >>

\* "Allow this action?", the literal head of _permission_prompt_pattern
ALLOW_THIS_ACTION ==
    <<65, 108, 108, 111, 119, 32, 116, 104, 105, 115, 32, 97, 99, 116, 105,
      111, 110, 63>>

\* ANSI_CODE_PATTERN = \x1b\[[0-9;]*m matched at position i: the position after
\* the match, or 0.  [0-9;]* is greedy and cannot hold the closing m, so the
\* match is unique.
AnsiCodeEnd(s, i) ==
    IF i + 1 <= Len(s) /\ s[i] = ESC /\ s[i + 1] = LBRACKET
    THEN LET j == SkipAnsiParams(s, i + 2)
         IN  IF j <= Len(s) /\ s[j] = LOWER_M THEN j + 1 ELSE 0
    ELSE 0

\* re.sub(ANSI_CODE_PATTERN, "", s): the non-overlapping matches, found left to
\* right, are removed
RECURSIVE StripAnsiFrom(_, _)
StripAnsiFrom(s, i) ==
    LET n == First({j \in i..Len(s) : AnsiCodeEnd(s, j) # 0})
    IN  IF n = 0 THEN SubSeq(s, i, Len(s))
        ELSE SubSeq(s, i, n - 1) \o StripAnsiFrom(s, AnsiCodeEnd(s, n))

StripAnsi(s) == StripAnsiFrom(s, 1)

\* ESCAPE_SEQUENCE_PATTERN = \[[?0-9;]*[a-zA-Z] matched at position i
EscapeSequenceEnd(s, i) ==
    IF i <= Len(s) /\ s[i] = LBRACKET
    THEN LET j == SkipEscParams(s, i + 1)
         IN  IF j <= Len(s) /\ IsAlpha(s[j]) THEN j + 1 ELSE 0
    ELSE 0

\* re.sub(ESCAPE_SEQUENCE_PATTERN, "", s)
RECURSIVE StripEscapeFrom(_, _)
StripEscapeFrom(s, i) ==
    LET n == First({j \in i..Len(s) : EscapeSequenceEnd(s, j) # 0})
    IN  IF n = 0 THEN SubSeq(s, i, Len(s))
        ELSE SubSeq(s, i, n - 1) \o StripEscapeFrom(s, EscapeSequenceEnd(s, n))

StripEscapeSequences(s) == StripEscapeFrom(s, 1)

\* only the bell (BELL_CHAR) is removed instead of every control character
StripControlChars_BellOnly(s) == SelectSeq(s, LAMBDA c : c # BEL)

\* re.sub(CONTROL_CHAR_PATTERN, "", s)
StripControlChars(s) == SelectSeq(s, LAMBDA c : ~IsControl(c))

\* GREEN_ARROW_PATTERN = ^>\s* under re.MULTILINE, matched at position i: the
\* position after the match, or 0.  ^ holds at the start of the text and right
\* after a line feed.
GreenArrowEnd(s, i) ==
    IF i <= Len(s) /\ s[i] = GT /\ (i = 1 \/ s[i - 1] = LF)
    THEN SkipSpace(s, i + 1)
    ELSE 0

\* list(re.finditer(GREEN_ARROW_PATTERN, s, re.MULTILINE)) from position i on:
\* the matches, left to right and non-overlapping
RECURSIVE GreenArrowsFrom(_, _)
GreenArrowsFrom(s, i) ==
    LET n == First({j \in i..Len(s) : GreenArrowEnd(s, j) # 0})
    IN  IF n = 0 THEN <<>>
        ELSE <<[start |-> n, end |-> GreenArrowEnd(s, n)]>>
             \o GreenArrowsFrom(s, GreenArrowEnd(s, n))

GreenArrows(s) == GreenArrowsFrom(s, 1)

\* the characters re.escape puts a backslash before:
\* ()[]{}?*+-|^$\.&~# and the white space \t \n \r \v \f
ReSpecialChars ==
    {40, 41, 91, 93, 123, 125, 63, 42, 43, 45, 124, 94, 36, 92, 46, 38, 126, 35, 32,
     9, 10, 13, 11, 12}

\* the profile put into the pattern as it is
re_escape_Missing(text) == text

\* re.escape(text)
RECURSIVE re_escape(_)
re_escape(text) ==
    IF text = <<>> THEN <<>>
    ELSE (IF Head(text) \in ReSpecialChars THEN <<BACKSLASH, Head(text)>> ELSE <<Head(text)>>)
         \o re_escape(Tail(text))

\* the pattern text pat matched at position i of s: the position after the
\* match, or 0.  pat is made of ordinary characters (each matches itself),
\* backslash-escaped characters (each matches the character escaped) and "."
\* (matches any character but a line feed), so the match is unique.
RECURSIVE PatternEnd(_, _, _)
PatternEnd(s, i, pat) ==
    IF pat = <<>> THEN i
    ELSE IF i > Len(s) THEN 0
    ELSE IF pat[1] = BACKSLASH
         THEN IF Len(pat) >= 2 /\ s[i] = pat[2]
              THEN PatternEnd(s, i + 1, SubSeq(pat, 3, Len(pat))) ELSE 0
    ELSE IF pat[1] = DOT
         THEN IF s[i] # LF THEN PatternEnd(s, i + 1, Tail(pat)) ELSE 0
    ELSE IF s[i] = pat[1] THEN PatternEnd(s, i + 1, Tail(pat)) ELSE 0

\* the part of _idle_prompt_pattern after the profile,
\* \]\s*(?:\d+%\s*)?(?:λ\s*)?!?>\s* , matched at position p, where p = 0
\* says that the profile did not match: the position after the match, or 0
PromptTailEnd(s, p) ==
    IF p = 0 \/ p > Len(s) \/ s[p] # RBRACKET THEN 0
    ELSE LET a == SkipSpace(s, p + 1)
             d == SkipDigits(s, a)
             b == IF d > a /\ d <= Len(s) /\ s[d] = PERCENT
                  THEN SkipSpace(s, d + 1) ELSE a
             l == IF b <= Len(s) /\ s[b] = SMALL_LAMBDA
                  THEN SkipSpace(s, b + 1) ELSE b
             g == IF l <= Len(s) /\ s[l] = BANG THEN l + 1 ELSE l
         IN  IF g <= Len(s) /\ s[g] = GT THEN SkipSpace(s, g + 1) ELSE 0

\* _idle_prompt_pattern = \[<re.escape(profile)>\]\s*(?:\d+%\s*)?(?:\u03bb\s*)?!?>\s*
\* matched at position i: the position after the match, or 0.  re.escape makes
\* the profile a literal.  Every part is followed by something it cannot itself
\* match, so backtracking finds no second way to match and the end is unique.
IdlePromptEnd(profile, s, i) ==
    IF i <= Len(s) /\ s[i] = LBRACKET
    THEN PromptTailEnd(s, PatternEnd(s, i + 1, re_escape(profile)))
    ELSE 0

\* list(re.finditer(self._idle_prompt_pattern, s)) from position i on
RECURSIVE IdlePromptsFrom(_, _, _)
IdlePromptsFrom(profile, s, i) ==
    LET n == First({j \in i..Len(s) : IdlePromptEnd(profile, s, j) # 0})
    IN  IF n = 0 THEN <<>>
        ELSE <<[start |-> n, end |-> IdlePromptEnd(profile, s, n)]>>
             \o IdlePromptsFrom(profile, s, IdlePromptEnd(profile, s, n))

IdlePrompts(profile, s) == IdlePromptsFrom(profile, s, 1)

\* some position k >= i holds "]:" followed by \s* and the idle prompt; the
\* prompt starts with "[", so \s* takes the whole white-space run
PermissionTailFrom(profile, s, i) ==
    \E k \in i..(Len(s) - 1) :
        /\ s[k] = RBRACKET
        /\ s[k + 1] = COLON
        /\ IdlePromptEnd(profile, s, SkipSpace(s, k + 2)) # 0

\* re.search(_permission_prompt_pattern, s, re.MULTILINE | re.DOTALL) with
\* _permission_prompt_pattern =
\*     Allow this action\?.*\[.*y.*\/.*n.*\/.*t.*\]:\s* + _idle_prompt_pattern
\* Under DOTALL each .* matches any run of characters, line feeds included, so
\* a match exists iff the literal parts occur in this order; taking each part at
\* its first possible position loses no match.  The pattern has no ^ or $, so
\* MULTILINE changes nothing.
PermissionPromptMatches(profile, s) ==
    LET p0 == FirstLit(s, 1, ALLOW_THIS_ACTION)
        p1 == IF p0 = 0 THEN 0 ELSE FirstChar(s, p0 + Len(ALLOW_THIS_ACTION), LBRACKET)
        p2 == IF p1 = 0 THEN 0 ELSE FirstChar(s, p1 + 1, LOWER_Y)
        p3 == IF p2 = 0 THEN 0 ELSE FirstChar(s, p2 + 1, SLASH)
        p4 == IF p3 = 0 THEN 0 ELSE FirstChar(s, p3 + 1, LOWER_N)
        p5 == IF p4 = 0 THEN 0 ELSE FirstChar(s, p4 + 1, SLASH)
        p6 == IF p5 = 0 THEN 0 ELSE FirstChar(s, p5 + 1, LOWER_T)
    IN  p6 # 0 /\ PermissionTailFrom(profile, s, p6 + 1)

-----------------------------------------------------------------------------
(* KiroCliProvider.get_status and extract_last_message_from_script *)

TerminalStatus == {"IDLE", "PROCESSING", "COMPLETED", "WAITING_USER_ANSWER", "ERROR"}

\* the error phrases looked for without folding the letter case
HasErrorIndicator_CaseSensitive(clean) ==
    \E k \in 1..Len(ERROR_INDICATORS) : Contains(clean, ERROR_INDICATORS[k])

\* any(indicator.lower() in clean_output.lower() for indicator in ERROR_INDICATORS)
HasErrorIndicator(clean) ==
    \E k \in 1..Len(ERROR_INDICATORS) :
        Contains(Lower(clean), Lower(ERROR_INDICATORS[k]))

\* the loop `for prompt in idle_prompts: if prompt.start() > last_arrow_pos`:
\* the first idle prompt that starts after last_arrow_pos, as a sequence of
\* zero or one match
FinalPrompt(idle_prompts, last_arrow_pos) ==
    LET after == SelectSeq(idle_prompts, LAMBDA m : m.start > last_arrow_pos)
    IN  IF after = <<>> THEN <<>> ELSE <<after[1]>>

\* get_status with the error phrases looked for before the idle prompt
get_status_ErrorBeforeIdlePrompt(profile, output) ==
    IF output = <<>> THEN "ERROR"
    ELSE LET clean_output == StripAnsi(output)
             idle_prompts == IdlePrompts(profile, clean_output)
             green_arrows == GreenArrows(clean_output)
         IN  IF HasErrorIndicator(clean_output) THEN "ERROR"
             ELSE IF idle_prompts = <<>> THEN "PROCESSING"
             ELSE IF PermissionPromptMatches(profile, clean_output)
                  THEN "WAITING_USER_ANSWER"
             ELSE IF green_arrows # <<>>
                  THEN LET last_arrow_pos == green_arrows[Len(green_arrows)].end
                       IN  IF FinalPrompt(idle_prompts, last_arrow_pos) # <<>>
                           THEN "COMPLETED"
                           ELSE "PROCESSING"
             ELSE "IDLE"

\* get_status taking the first response-start marker (green_arrows[0]) instead
\* of the last
get_status_FirstArrow(profile, output) ==
    IF output = <<>> THEN "ERROR"
    ELSE LET clean_output == StripAnsi(output)
             idle_prompts == IdlePrompts(profile, clean_output)
             green_arrows == GreenArrows(clean_output)
         IN  IF idle_prompts = <<>> THEN "PROCESSING"
             ELSE IF HasErrorIndicator(clean_output) THEN "ERROR"
             ELSE IF PermissionPromptMatches(profile, clean_output)
                  THEN "WAITING_USER_ANSWER"
             ELSE IF green_arrows # <<>>
                  THEN LET last_arrow_pos == green_arrows[1].end
                       IN  IF FinalPrompt(idle_prompts, last_arrow_pos) # <<>>
                           THEN "COMPLETED"
                           ELSE "PROCESSING"
             ELSE "IDLE"

\* get_status on the text output that get_history returned
get_status(profile, output) ==
    IF output = <<>> THEN "ERROR"
    ELSE LET clean_output == StripAnsi(output)
             idle_prompts == IdlePrompts(profile, clean_output)
             green_arrows == GreenArrows(clean_output)
         IN  IF idle_prompts = <<>> THEN "PROCESSING"
             ELSE IF HasErrorIndicator(clean_output) THEN "ERROR"
             ELSE IF PermissionPromptMatches(profile, clean_output)
                  THEN "WAITING_USER_ANSWER"
             ELSE IF green_arrows # <<>>
                  THEN LET last_arrow_pos == green_arrows[Len(green_arrows)].end
                       IN  IF FinalPrompt(idle_prompts, last_arrow_pos) # <<>>
                           THEN "COMPLETED"
                           ELSE "PROCESSING"
             ELSE "IDLE"

\* the ValueError messages of the extractor, by the failure kind they report
NoResponseFound == "No Kiro CLI response found"
IncompleteResponse == "Incomplete Kiro CLI response"
EmptyResponse == "Empty Kiro CLI response"

Raised(kind) == [ok |-> FALSE, err |-> kind, text |-> <<>>]
Returned(text) == [ok |-> TRUE, err |-> "none", text |-> text]

\* the extractor taking the first idle prompt of the capture as the final
\* prompt, wherever it stands relative to the last marker
extract_AnyPrompt(profile, script_output) ==
    LET clean_output == StripAnsi(script_output)
        green_arrows == GreenArrows(clean_output)
        idle_prompts == IdlePrompts(profile, clean_output)
    IN  IF green_arrows = <<>> THEN Raised(NoResponseFound)
        ELSE IF idle_prompts = <<>> THEN Raised(IncompleteResponse)
        ELSE LET last_arrow_pos == green_arrows[Len(green_arrows)].end
                 final_prompt == <<idle_prompts[1]>>
                 final_answer ==
                     Strip(SubSeq(clean_output, last_arrow_pos,
                                  final_prompt[1].start - 1))
             IN  IF final_answer = <<>> THEN Raised(EmptyResponse)
                 ELSE Returned(Strip(StripControlChars(
                          StripEscapeSequences(StripAnsi(final_answer)))))

\* the extractor with the emptiness check moved after the clean-up
extract_EmptyCheckAfterCleanup(profile, script_output) ==
    LET clean_output == StripAnsi(script_output)
        green_arrows == GreenArrows(clean_output)
        idle_prompts == IdlePrompts(profile, clean_output)
    IN  IF green_arrows = <<>> THEN Raised(NoResponseFound)
        ELSE IF idle_prompts = <<>> THEN Raised(IncompleteResponse)
        ELSE LET last_arrow_pos == green_arrows[Len(green_arrows)].end
                 final_prompt == FinalPrompt(idle_prompts, last_arrow_pos)
             IN  IF final_prompt = <<>> THEN Raised(IncompleteResponse)
                 ELSE LET final_answer ==
                              Strip(StripControlChars(StripEscapeSequences(StripAnsi(
                                  Strip(SubSeq(clean_output, last_arrow_pos,
                                               final_prompt[1].start - 1))))))
                      IN  IF final_answer = <<>> THEN Raised(EmptyResponse)
                          ELSE Returned(final_answer)

\* the extractor with the two first checks swapped: the idle prompts are
\* looked at before the response-start markers
extract_PromptCheckFirst(profile, script_output) ==
    LET clean_output == StripAnsi(script_output)
        green_arrows == GreenArrows(clean_output)
        idle_prompts == IdlePrompts(profile, clean_output)
    IN  IF idle_prompts = <<>> THEN Raised(IncompleteResponse)
        ELSE IF green_arrows = <<>> THEN Raised(NoResponseFound)
        ELSE LET last_arrow_pos == green_arrows[Len(green_arrows)].end
                 final_prompt == FinalPrompt(idle_prompts, last_arrow_pos)
             IN  IF final_prompt = <<>> THEN Raised(IncompleteResponse)
                 ELSE LET final_answer ==
                              Strip(SubSeq(clean_output, last_arrow_pos,
                                           final_prompt[1].start - 1))
                      IN  IF final_answer = <<>> THEN Raised(EmptyResponse)
                          ELSE Returned(Strip(StripControlChars(
                                   StripEscapeSequences(StripAnsi(final_answer)))))

\* the extractor starting at the first response-start marker (green_arrows[0])
\* instead of the last
extract_FirstArrow(profile, script_output) ==
    LET clean_output == StripAnsi(script_output)
        green_arrows == GreenArrows(clean_output)
        idle_prompts == IdlePrompts(profile, clean_output)
    IN  IF green_arrows = <<>> THEN Raised(NoResponseFound)
        ELSE IF idle_prompts = <<>> THEN Raised(IncompleteResponse)
        ELSE LET last_arrow_pos == green_arrows[1].end
                 final_prompt == FinalPrompt(idle_prompts, last_arrow_pos)
             IN  IF final_prompt = <<>> THEN Raised(IncompleteResponse)
                 ELSE LET final_answer ==
                              Strip(SubSeq(clean_output, last_arrow_pos,
                                           final_prompt[1].start - 1))
                      IN  IF final_answer = <<>> THEN Raised(EmptyResponse)
                          ELSE Returned(Strip(StripControlChars(
                                   StripEscapeSequences(StripAnsi(final_answer)))))

\* extract_last_message_from_script
extract_last_message_from_script(profile, script_output) ==
    LET clean_output == StripAnsi(script_output)
        green_arrows == GreenArrows(clean_output)
        idle_prompts == IdlePrompts(profile, clean_output)
    IN  IF green_arrows = <<>> THEN Raised(NoResponseFound)
        ELSE IF idle_prompts = <<>> THEN Raised(IncompleteResponse)
        ELSE LET last_arrow_pos == green_arrows[Len(green_arrows)].end
                 final_prompt == FinalPrompt(idle_prompts, last_arrow_pos)
             IN  IF final_prompt = <<>> THEN Raised(IncompleteResponse)
                 ELSE LET start_pos == last_arrow_pos
                          end_pos == final_prompt[1].start
                          final_answer ==
                              Strip(SubSeq(clean_output, start_pos, end_pos - 1))
                      IN  IF final_answer = <<>> THEN Raised(EmptyResponse)
                          ELSE Returned(Strip(StripControlChars(
                                   StripEscapeSequences(StripAnsi(final_answer)))))

-----------------------------------------------------------------------------
(* The pane a KiroCliProvider watches *)

\* the provider's _agent_profile: "dev"
agent_profile == <<100, 101, 118>>

\* str.upper() of an ASCII text
Upper(s) == [i \in 1..Len(s) |-> IF s[i] \in 97..122 THEN s[i] - 32 ELSE s[i]]

\* What the driven CLI and the user's echo can add to the pane's content:
\*   "[dev]> "                       the idle prompt of the profile
\*   "\n> "                          a response-start marker on a new line
\*   "Hi"                            plain text
\*   the error phrase as the CLI prints it and in upper case,
\*   the permission question "Allow this action? [y/n/t]:"
\*   ESC, "[1m" (after ESC an SGR code, alone an escape-sequence fragment), BEL
\*   "\n> Hi\n[dev]> "               a whole finished round printed at once
OutputFragments ==
    { <<91, 100, 101, 118, 93, 62, 32>>,
      <<10, 62, 32>>,
      <<72, 105>>,
      ERROR_INDICATORS[1],
      Upper(ERROR_INDICATORS[1]),
      ALLOW_THIS_ACTION \o <<32, 91, 121, 47, 110, 47, 116, 93, 58>>,
      <<ESC>>,
      <<91, 49, 109>>,
      <<BEL>>,
      <<10, 62, 32, 72, 105, 10, 91, 100, 101, 118, 93, 62, 32>> }

NotExtracted == [ok |-> FALSE, err |-> "not called", text |-> <<>>]

\* the text of _idle_prompt_pattern, an rf-string of the profile
IdlePromptPattern(profile) ==
    <<"\\[", re_escape(profile), "\\]\\s*(?:\\d+%\\s*)?(?:\\u03bb\\s*)?!?>\\s*">>

\* the text of _permission_prompt_pattern
PermissionPromptPattern(profile) ==
    <<"Allow this action\\?.*\\[.*y.*\\/.*n.*\\/.*t.*\\]:\\s*">> \o IdlePromptPattern(profile)

\* KiroCliProvider.__init__ (lines 29-42); session_name and window_name are
\* the session and window the provider drives
NewProvider(profile) ==
    [session_name |-> "sess", window_name |-> "win1", profile |-> profile,
     idle_prompt_pattern |-> IdlePromptPattern(profile),
     permission_prompt_pattern |-> PermissionPromptPattern(profile),
     initialized |-> FALSE]

\* no provider operation has been called yet
NoProviderCall ==
    [op |-> "none", tail_lines |-> None, shell |-> FALSE, mux |-> <<>>, polls |-> 0,
     capture |-> <<>>, before |-> NewProvider(agent_profile),
     ended |-> TRUE, ok |-> TRUE, value |-> "none", err |-> "none"]

InitProvider(profile) ==
    /\ provider = NewProvider(profile)
    /\ pcall = NoProviderCall
    /\ ppc = "none"

InitCapture ==
    /\ capture = <<>>
    /\ nfrags = 0
    /\ status = "none"
    /\ extracted = NotExtracted

InitKiro ==
    /\ InitCapture
    /\ InitProvider(agent_profile)

\* the program in the pane prints f; what was computed from the old content
\* is no longer about this capture
PaneOutput(f) ==
    /\ nfrags < MaxFrags
    /\ capture' = capture \o f
    /\ nfrags' = nfrags + 1
    /\ status' = "none"
    /\ extracted' = NotExtracted
    /\ UNCHANGED providerVars
    /\ UNCHANGED tmuxVars
    /\ UNCHANGED serverVars

\* provider.get_status(): get_history returns the capture.  The caller polls
\* a capture once: polling it again would compute the same value.
GetStatus ==
    /\ status = "none"
    /\ status' = get_status(agent_profile, capture)
    /\ UNCHANGED <<capture, nfrags, extracted>>
    /\ UNCHANGED providerVars
    /\ UNCHANGED tmuxVars
    /\ UNCHANGED serverVars

\* provider.extract_last_message_from_script(capture): the caller classifies a
\* capture first and then extracts from that same capture, whatever the status
ExtractLastMessage ==
    /\ status # "none"
    /\ extracted = NotExtracted
    /\ extracted' = extract_last_message_from_script(agent_profile, capture)
    /\ UNCHANGED <<capture, nfrags, status>>
    /\ UNCHANGED providerVars
    /\ UNCHANGED tmuxVars
    /\ UNCHANGED serverVars

NextKiro ==
    \/ \E f \in OutputFragments : PaneOutput(f)
    \/ GetStatus
    \/ ExtractLastMessage

\* the characters of an agent's reply: a letter, "[", "x", "]", a line feed
\* and a space; none is ESC and none but the line feed is a control character
ReplyAlphabet == {97, LBRACKET, 120, RBRACKET, LF, 32}

\* the replies of up to MaxReplyLen characters
Replies == UNION {[1..n -> ReplyAlphabet] : n \in 0..MaxReplyLen}

\* a finished round as get_history returns it: the response-start marker
\* "> " at the start of the capture, the reply, and the idle prompt of the
\* profile on the next line
RoundOf(reply) == <<GT, 32>> \o reply \o <<LF, 91, 100, 101, 118, 93, 62, 32>>

\* the pane shows one finished round with some reply
InitReply ==
    /\ \E reply \in Replies : capture = RoundOf(reply)
    /\ nfrags = 0
    /\ status = "none"
    /\ extracted = NotExtracted
    /\ InitProvider(agent_profile)

\* the caller classifies the capture and extracts the reply from it
NextReply ==
    \/ GetStatus
    \/ ExtractLastMessage

-----------------------------------------------------------------------------
(* KiroCliProvider: the operations of the provider object *)

\* what the pane of the provider's window prints: "[dev]> ", "\n> ", "Hi"
ProviderFragments ==
    { <<91, 100, 101, 118, 93, 62, 32>>, <<10, 62, 32>>, <<72, 105>> }

\* the tail_lines arguments: None or a number of lines
TailLines == {None, Some(5)}

\* how a tmux_client call made by the provider ends: it returns, or it raises
ProviderOutcomes == {"ok", "raises"}

\* tmux_client.get_history(self.session_name, self.window_name, tail_lines=tail_lines)
HistoryCall(p, tail_lines) ==
    [call |-> "get_history", session_name |-> p.session_name,
     window_name |-> p.window_name, tail_lines |-> tail_lines, keys |-> <<>>]

\* tmux_client.send_keys(self.session_name, self.window_name, command)
SendKeysCall(p, command) ==
    [call |-> "send_keys", session_name |-> p.session_name,
     window_name |-> p.window_name, tail_lines |-> None, keys |-> command]

\* f"kiro-cli chat --agent {self._agent_profile}"
KiroCommand(profile) ==
    <<107, 105, 114, 111, 45, 99, 108, 105, 32, 99, 104, 97, 116, 32, 45, 45, 97,
      103, 101, 110, 116, 32>> \o profile

ShellTimeout == "TimeoutError: Shell initialization timed out after 10 seconds"
InitializationTimeout == "TimeoutError: Kiro CLI initialization timed out after 30 seconds"
TmuxClientException == "exception raised by tmux_client"

\* the record of a provider operation that has ended
ProviderEnded(op, tail_lines, mux, ok, value, err) ==
    [op |-> op, tail_lines |-> tail_lines, shell |-> FALSE, mux |-> mux, polls |-> 0,
     capture |-> capture, before |-> provider,
     ended |-> TRUE, ok |-> ok, value |-> value, err |-> err]

\* the pane prints f while the provider is in use; the results of earlier
\* calls stay what they were
ProviderPaneOutput(f) ==
    /\ nfrags < MaxFrags
    /\ capture' = capture \o f
    /\ nfrags' = nfrags + 1
    /\ UNCHANGED <<status, extracted>>
    /\ UNCHANGED providerVars
    /\ UNCHANGED tmuxVars
    /\ UNCHANGED serverVars

\* get_status remembering a COMPLETED it has returned: the next call returns
\* it again without classifying the new capture
ProviderGetStatus_Sticky(tail_lines, mx) ==
    /\ ppc = "none"
    /\ IF mx = "raises"
       THEN /\ pcall' = ProviderEnded("get_status", tail_lines,
                                      <<HistoryCall(provider, tail_lines)>>,
                                      FALSE, "none", TmuxClientException)
            /\ UNCHANGED status
       ELSE /\ status' = IF status = "COMPLETED" THEN status
                         ELSE get_status(provider.profile, capture)
            /\ pcall' = ProviderEnded("get_status", tail_lines,
                                      <<HistoryCall(provider, tail_lines)>>,
                                      TRUE, status', "none")
    /\ UNCHANGED <<capture, nfrags, extracted, provider, ppc>>
    /\ UNCHANGED tmuxVars
    /\ UNCHANGED serverVars

\* provider.get_status(tail_lines) (lines 59-100): one get_history call, whose
\* result is classified; an exception of get_history leaves get_status
ProviderGetStatus(tail_lines, mx) ==
    /\ ppc = "none"
    /\ IF mx = "raises"
       THEN /\ pcall' = ProviderEnded("get_status", tail_lines,
                                      <<HistoryCall(provider, tail_lines)>>,
                                      FALSE, "none", TmuxClientException)
            /\ UNCHANGED status
       ELSE /\ status' = get_status(provider.profile, capture)
            /\ pcall' = ProviderEnded("get_status", tail_lines,
                                      <<HistoryCall(provider, tail_lines)>>,
                                      TRUE, status', "none")
    /\ UNCHANGED <<capture, nfrags, extracted, provider, ppc>>
    /\ UNCHANGED tmuxVars
    /\ UNCHANGED serverVars

\* provider.extract_last_message_from_script(capture) (lines 102-145)
ProviderExtract ==
    /\ ppc = "none"
    /\ extracted' = extract_last_message_from_script(provider.profile, capture)
    /\ pcall' = ProviderEnded("extract_last_message_from_script", None, <<>>,
                              extracted'.ok, extracted'.text, extracted'.err)
    /\ UNCHANGED <<capture, nfrags, status, provider, ppc>>
    /\ UNCHANGED tmuxVars
    /\ UNCHANGED serverVars

\* initialize going on to send the command whatever wait_for_shell returned
InitializeBegin_NoShellCheck(shell_ready) ==
    /\ ppc = "none"
    /\ pcall' = [ProviderEnded("initialize", None, <<>>, FALSE, "none", "none")
                    EXCEPT !.shell = shell_ready, !.ended = FALSE]
    /\ ppc' = "send"
    /\ UNCHANGED <<capture, nfrags, status, extracted, provider>>
    /\ UNCHANGED tmuxVars
    /\ UNCHANGED serverVars

\* initialize, lines 46-48: wait_for_shell returns shell_ready; on False the
\* call raises TimeoutError
InitializeBegin(shell_ready) ==
    /\ ppc = "none"
    /\ IF ~shell_ready
       THEN /\ pcall' = ProviderEnded("initialize", None, <<>>, FALSE, "none", ShellTimeout)
            /\ ppc' = "none"
       ELSE /\ pcall' = [ProviderEnded("initialize", None, <<>>, FALSE, "none", "none")
                            EXCEPT !.shell = TRUE, !.ended = FALSE]
            /\ ppc' = "send"
    /\ UNCHANGED <<capture, nfrags, status, extracted, provider>>
    /\ UNCHANGED tmuxVars
    /\ UNCHANGED serverVars

\* initialize, lines 50-51: the command is sent; an exception of send_keys
\* leaves initialize
InitializeSend(outcome) ==
    /\ ppc = "send"
    /\ LET call == SendKeysCall(provider, KiroCommand(provider.profile))
       IN  IF outcome = "raises"
           THEN /\ pcall' = [pcall EXCEPT !.mux = Append(@, call), !.ended = TRUE,
                                          !.err = TmuxClientException]
                /\ ppc' = "none"
           ELSE /\ pcall' = [pcall EXCEPT !.mux = Append(@, call)]
                /\ ppc' = "poll"
    /\ UNCHANGED <<capture, nfrags, status, extracted, provider>>
    /\ UNCHANGED tmuxVars
    /\ UNCHANGED serverVars

\* wait_until_status(provider, target, timeout): the polling loop classifies a
\* capture; it returns True when the status is the target, False when the
\* time is over, and polls again otherwise
WaitUntilStatus(target, polled, timed_out) ==
    IF polled = target THEN "True"
    ELSE IF timed_out THEN "False"
    ELSE "again"

\* initialize, lines 53-57: wait_until_status(self, TerminalStatus.IDLE, 30.0),
\* one poll at a time; on True the flag is set and True returned, on False
\* TimeoutError is raised
InitializeWait(timed_out) ==
    /\ ppc = "poll"
    /\ LET polled == get_status(provider.profile, capture)
           answer == WaitUntilStatus("IDLE", polled, timed_out)
       IN  /\ status' = polled
           /\ IF answer = "True"
              THEN /\ provider' = [provider EXCEPT !.initialized = TRUE]
                   /\ pcall' = [pcall EXCEPT !.polls = @ + 1, !.capture = capture,
                                             !.ended = TRUE, !.ok = TRUE, !.value = TRUE]
                   /\ ppc' = "none"
              ELSE IF answer = "False"
              THEN /\ pcall' = [pcall EXCEPT !.polls = @ + 1, !.capture = capture,
                                             !.ended = TRUE, !.err = InitializationTimeout]
                   /\ ppc' = "none"
                   /\ UNCHANGED provider
              ELSE /\ pcall.polls < MaxPolls
                   /\ pcall' = [pcall EXCEPT !.polls = @ + 1, !.capture = capture]
                   /\ UNCHANGED <<provider, ppc>>
    /\ UNCHANGED <<capture, nfrags, extracted>>
    /\ UNCHANGED tmuxVars
    /\ UNCHANGED serverVars

\* cleanup (lines 155-157)
Cleanup ==
    /\ ppc = "none"
    /\ provider' = [provider EXCEPT !.initialized = FALSE]
    /\ pcall' = ProviderEnded("cleanup", None, <<>>, TRUE, "none", "none")
    /\ UNCHANGED ppc
    /\ UNCHANGED <<capture, nfrags, status, extracted>>
    /\ UNCHANGED tmuxVars
    /\ UNCHANGED serverVars

NextProvider ==
    \/ \E f \in ProviderFragments : ProviderPaneOutput(f)
    \/ \E tail_lines \in TailLines, mx \in ProviderOutcomes : ProviderGetStatus(tail_lines, mx)
    \/ ProviderExtract
    \/ \E shell_ready \in BOOLEAN : InitializeBegin(shell_ready)
    \/ \E outcome \in ProviderOutcomes : InitializeSend(outcome)
    \/ \E timed_out \in BOOLEAN : InitializeWait(timed_out)
    \/ Cleanup

\* ---- providers of different profiles ----

\* the profiles a provider is constructed with: "dev" and "d.v"
Profiles == {agent_profile, <<100, DOT, 118>>}

\* what the pane prints: the prompt heads "[dev]" and "[d.v]", the usage
\* percentage " 5% ", the lambda glyph and "!" as lambda, " !", and the end of
\* the prompt with text after it, "> Hi"
ProfileFragments ==
    { <<91, 100, 101, 118, 93>>,
      <<91, 100, DOT, 118, 93>>,
      <<32, 53, PERCENT, 32>>,
      <<SMALL_LAMBDA, 32, BANG>>,
      <<GT, 32, 72, 105>> }

InitProfile ==
    /\ InitCapture
    /\ \E profile \in Profiles : InitProvider(profile)

NextProfile ==
    \/ \E f \in ProfileFragments : ProviderPaneOutput(f)
    \/ ProviderGetStatus(None, "ok")

-----------------------------------------------------------------------------
(* clients/tmux.py: TmuxClient.send_keys *)

Callers == {1, 2}

\* in Spec one caller issues its calls one after the other
SequentialCallers == {1}

Sessions == {"sess"}
Windows == {"win1", "win2"}

\* the code points a text is made of: "$", e-acute (two bytes in UTF-8) and a
\* lone surrogate U+D800 (a Python str can hold it; UTF-8 cannot encode it)
TextAlphabet == {36, 233, 55296}

RECURSIVE SeqsUpTo(_, _)
SeqsUpTo(A, n) ==
    IF n = 0 THEN {<<>>}
    ELSE LET shorter == SeqsUpTo(A, n - 1)
         IN  shorter \cup {Append(t, a) : t \in shorter, a \in A}

Texts == SeqsUpTo(TextAlphabet, MaxTextLen)

\* uuid.uuid4().hex, written as <<its first 8 hex digits, the rest>>: two
\* different UUIDs may agree on the first 8 digits
Uuid4Hex == {<<"aaaa1111", "bbbb">>, <<"aaaa1111", "cccc">>, <<"cccc2222", "dddd">>}

\* f"cao_{uuid.uuid4().hex[:8]}"
BufName(hex) == "cao_" \o hex[1]

\* f"{session_name}:{window_name}"
Target(sn, wn) == sn \o ":" \o wn

Targets == {Target(sn, wn) : sn \in Sessions, wn \in Windows}

\* str.encode() of one code point: UTF-8
Utf8(cp) ==
    IF cp < 128 THEN <<cp>>
    ELSE IF cp < 2048 THEN <<192 + (cp \div 64), 128 + (cp % 64)>>
    ELSE IF cp < 65536
         THEN <<224 + (cp \div 4096), 128 + ((cp \div 64) % 64), 128 + (cp % 64)>>
    ELSE <<240 + (cp \div 262144), 128 + ((cp \div 4096) % 64),
           128 + ((cp \div 64) % 64), 128 + (cp % 64)>>

\* str.encode() raises UnicodeEncodeError on a surrogate code point
Encodable(text) == \A i \in 1..Len(text) : text[i] \notin 55296..57343

\* keys.encode() for an encodable text
RECURSIVE Encode(_)
Encode(text) ==
    IF text = <<>> THEN <<>> ELSE Utf8(Head(text)) \o Encode(Tail(text))

\* bytes.decode(): the code points a UTF-8 byte string stands for
RECURSIVE DecodeUtf8(_)
DecodeUtf8(b) ==
    IF b = <<>> THEN <<>>
    ELSE IF b[1] < 128 THEN <<b[1]>> \o DecodeUtf8(SubSeq(b, 2, Len(b)))
    ELSE IF b[1] < 224
         THEN <<(b[1] - 192) * 64 + (b[2] - 128)>> \o DecodeUtf8(SubSeq(b, 3, Len(b)))
    ELSE IF b[1] < 240
         THEN <<(b[1] - 224) * 4096 + (b[2] - 128) * 64 + (b[3] - 128)>>
              \o DecodeUtf8(SubSeq(b, 4, Len(b)))
    ELSE <<(b[1] - 240) * 262144 + (b[2] - 128) * 4096 + (b[3] - 128) * 64
           + (b[4] - 128)>> \o DecodeUtf8(SubSeq(b, 5, Len(b)))

\* the argument lists send_keys hands to subprocess.run
LoadBufferCmd(buf, input) ==
    [argv |-> <<"tmux", "load-buffer", "-b", buf, "-">>, input |-> input, check |-> TRUE]

\* a paste without bracketed-paste mode
PasteBufferCmd_NoBracketedPaste(buf, tgt) ==
    [argv |-> <<"tmux", "paste-buffer", "-b", buf, "-t", tgt>>,
     input |-> <<>>, check |-> TRUE]

PasteBufferCmd(buf, tgt) ==
    [argv |-> <<"tmux", "paste-buffer", "-p", "-b", buf, "-t", tgt>>,
     input |-> <<>>, check |-> TRUE]

SendEnterCmd(tgt) ==
    [argv |-> <<"tmux", "send-keys", "-t", tgt, "Enter">>, input |-> <<>>, check |-> TRUE]

DeleteBufferCmd(buf) ==
    [argv |-> <<"tmux", "delete-buffer", "-b", buf>>, input |-> <<>>, check |-> FALSE]

\* How one subprocess.run can end: tmux exits 0, tmux exits non-zero, or the
\* process cannot be started (OSError)
Outcomes == {"ok", "nonzero", "oserror"}

\* the exception subprocess.run(..., check=check) raises, or "none"
RunRaises(check, outcome) ==
    IF outcome = "oserror" THEN "OSError"
    ELSE IF outcome = "nonzero" /\ check THEN "CalledProcessError"
    ELSE "none"

\* an entry of cmds: the invocation and how it ended
Ran(cmd, outcome) ==
    [argv |-> cmd.argv, input |-> cmd.input, check |-> cmd.check, outcome |-> outcome]

NoBuffers == [b \in {} |-> <<>>]

\* the local variable target of caller c's call (line 117)
target(c) == Target(session_name[c], window_name[c])

InitTmux ==
    /\ pc = [c \in Callers |-> "idle"]
    /\ keys = [c \in Callers |-> <<>>]
    /\ session_name = [c \in Callers |-> "none"]
    /\ window_name = [c \in Callers |-> "none"]
    /\ buf_name = [c \in Callers |-> "none"]
    /\ exc = [c \in Callers |-> "none"]
    /\ ret = [c \in Callers |-> "none"]
    /\ cmds = [c \in Callers |-> <<>>]
    /\ buffers = NoBuffers
    /\ pane = [t \in Targets |-> <<>>]
    /\ ncalls = 0
    /\ issued = {}

\* send_keys(session_name, window_name, keys) is entered: lines 117-118.
\* uuid.uuid4() returns a value it has not returned before.
SendKeysEnter(c, sn, wn, text, hex) ==
    /\ pc[c] = "idle"
    /\ hex \notin issued
    /\ issued' = issued \cup {hex}
    /\ ncalls' = ncalls + 1
    /\ keys' = [keys EXCEPT ![c] = text]
    /\ session_name' = [session_name EXCEPT ![c] = sn]
    /\ window_name' = [window_name EXCEPT ![c] = wn]
    /\ buf_name' = [buf_name EXCEPT ![c] = BufName(hex)]
    /\ exc' = [exc EXCEPT ![c] = "none"]
    /\ ret' = [ret EXCEPT ![c] = "none"]
    /\ cmds' = [cmds EXCEPT ![c] = <<>>]
    /\ pc' = [pc EXCEPT ![c] = "load"]
    /\ UNCHANGED <<buffers, pane>>
    /\ UNCHANGED kiroVars
    /\ UNCHANGED serverVars

\* a call of the sequential caller, as long as the bound allows one
SendKeysBegin(c, sn, wn, text, hex) ==
    /\ ncalls < MaxCalls
    /\ SendKeysEnter(c, sn, wn, text, hex)

\* lines 121-125: keys.encode(), then tmux load-buffer -b buf_name - with the
\* bytes on stdin.  An exception goes through `except` (log, re-raise) to
\* `finally`.
SendKeysLoad(c, outcome) ==
    /\ pc[c] = "load"
    /\ IF ~Encodable(keys[c])
       THEN /\ exc' = [exc EXCEPT ![c] = "UnicodeEncodeError"]
            /\ pc' = [pc EXCEPT ![c] = "delete"]
            /\ UNCHANGED <<cmds, buffers>>
       ELSE LET cmd == LoadBufferCmd(buf_name[c], Encode(keys[c]))
                e == RunRaises(cmd.check, outcome)
            IN  /\ cmds' = [cmds EXCEPT ![c] = Append(@, Ran(cmd, outcome))]
                /\ buffers' = IF outcome = "ok"
                              THEN [b \in DOMAIN buffers \cup {buf_name[c]} |->
                                       IF b = buf_name[c] THEN cmd.input ELSE buffers[b]]
                              ELSE buffers
                /\ exc' = [exc EXCEPT ![c] = e]
                /\ pc' = [pc EXCEPT ![c] = IF e = "none" THEN "paste" ELSE "delete"]
    /\ UNCHANGED <<keys, session_name, window_name, buf_name, ret, pane, ncalls, issued>>
    /\ UNCHANGED kiroVars
    /\ UNCHANGED serverVars

\* lines 126-129: tmux paste-buffer -p -b buf_name -t target; tmux exits 0
\* only if the buffer exists, and then the pane receives its content
SendKeysPaste(c, outcome) ==
    /\ pc[c] = "paste"
    /\ outcome = "ok" => buf_name[c] \in DOMAIN buffers
    /\ LET cmd == PasteBufferCmd(buf_name[c], target(c))
           e == RunRaises(cmd.check, outcome)
       IN  /\ cmds' = [cmds EXCEPT ![c] = Append(@, Ran(cmd, outcome))]
           /\ pane' = IF outcome = "ok"
                      THEN [pane EXCEPT ![target(c)] =
                               Append(@, [kind |-> "paste", data |-> buffers[buf_name[c]]])]
                      ELSE pane
           /\ exc' = [exc EXCEPT ![c] = e]
           /\ pc' = [pc EXCEPT ![c] = IF e = "none" THEN "submit" ELSE "delete"]
    /\ UNCHANGED <<keys, session_name, window_name, buf_name, ret, buffers, ncalls, issued>>
    /\ UNCHANGED kiroVars
    /\ UNCHANGED serverVars

\* lines 130-133: tmux send-keys -t target Enter
SendKeysSubmit(c, outcome) ==
    /\ pc[c] = "submit"
    /\ LET cmd == SendEnterCmd(target(c))
           e == RunRaises(cmd.check, outcome)
       IN  /\ cmds' = [cmds EXCEPT ![c] = Append(@, Ran(cmd, outcome))]
           /\ pane' = IF outcome = "ok"
                      THEN [pane EXCEPT ![target(c)] =
                               Append(@, [kind |-> "key", data |-> "Enter"])]
                      ELSE pane
           /\ exc' = [exc EXCEPT ![c] = e]
           /\ pc' = [pc EXCEPT ![c] = "delete"]
    /\ UNCHANGED <<keys, session_name, window_name, buf_name, ret, buffers, ncalls, issued>>
    /\ UNCHANGED kiroVars
    /\ UNCHANGED serverVars

\* the cleanup written after the try statement instead of in `finally`: it is
\* skipped when an exception is in flight
SendKeysDelete_NotInFinally(c, outcome) ==
    /\ pc[c] = "delete"
    /\ outcome = "ok" => buf_name[c] \in DOMAIN buffers
    /\ IF exc[c] # "none"
       THEN /\ ret' = [ret EXCEPT ![c] = exc[c]]
            /\ UNCHANGED <<cmds, buffers>>
       ELSE LET cmd == DeleteBufferCmd(buf_name[c])
                e == RunRaises(cmd.check, outcome)
            IN  /\ cmds' = [cmds EXCEPT ![c] = Append(@, Ran(cmd, outcome))]
                /\ buffers' = IF outcome = "ok"
                              THEN [b \in DOMAIN buffers \ {buf_name[c]} |-> buffers[b]]
                              ELSE buffers
                /\ ret' = [ret EXCEPT ![c] = IF e = "none" THEN "returned" ELSE e]
    /\ exc' = [exc EXCEPT ![c] = "none"]
    /\ pc' = [pc EXCEPT ![c] = "idle"]
    /\ UNCHANGED <<keys, session_name, window_name, buf_name, pane, ncalls, issued>>
    /\ UNCHANGED kiroVars
    /\ UNCHANGED serverVars

\* lines 138-142, the finally block: tmux delete-buffer -b buf_name with
\* check=False, then the call returns or the exception in flight leaves it.
\* An exception raised here replaces the one in flight.
SendKeysDelete(c, outcome) ==
    /\ pc[c] = "delete"
    /\ outcome = "ok" => buf_name[c] \in DOMAIN buffers
    /\ LET cmd == DeleteBufferCmd(buf_name[c])
           e == RunRaises(cmd.check, outcome)
           leaving == IF e # "none" THEN e ELSE exc[c]
       IN  /\ cmds' = [cmds EXCEPT ![c] = Append(@, Ran(cmd, outcome))]
           /\ buffers' = IF outcome = "ok"
                         THEN [b \in DOMAIN buffers \ {buf_name[c]} |-> buffers[b]]
                         ELSE buffers
           /\ exc' = [exc EXCEPT ![c] = "none"]
           /\ ret' = [ret EXCEPT ![c] = IF leaving = "none" THEN "returned" ELSE leaving]
           /\ pc' = [pc EXCEPT ![c] = "idle"]
    /\ UNCHANGED <<keys, session_name, window_name, buf_name, pane, ncalls, issued>>
    /\ UNCHANGED kiroVars
    /\ UNCHANGED serverVars

SendKeysStep(c) ==
    \/ \E sn \in Sessions, wn \in Windows, text \in Texts, hex \in Uuid4Hex :
           SendKeysBegin(c, sn, wn, text, hex)
    \/ \E outcome \in Outcomes : SendKeysLoad(c, outcome)
    \/ \E outcome \in Outcomes : SendKeysPaste(c, outcome)
    \/ \E outcome \in Outcomes : SendKeysSubmit(c, outcome)
    \/ \E outcome \in Outcomes : SendKeysDelete(c, outcome)

NextTmux == \E c \in SequentialCallers : SendKeysStep(c)

\* ---- overlapping calls ----
\* Two callers, each making one send_keys call into its own pane, their steps
\* interleaved in every order (one after the other included).

\* the window caller c sends to
PaneOf(c) == IF c = 1 THEN "win1" ELSE "win2"

\* the texts the two callers send: "$" and e-acute
ConcurrentTexts == {<<36>>, <<233>>}

ConcurrentBegin(c, text, hex) ==
    /\ ret[c] = "none"
    /\ SendKeysEnter(c, "sess", PaneOf(c), text, hex)

ConcurrentStep(c) ==
    \/ \E text \in ConcurrentTexts, hex \in Uuid4Hex : ConcurrentBegin(c, text, hex)
    \/ \E outcome \in Outcomes : SendKeysLoad(c, outcome)
    \/ \E outcome \in Outcomes : SendKeysPaste(c, outcome)
    \/ \E outcome \in Outcomes : SendKeysSubmit(c, outcome)
    \/ \E outcome \in Outcomes : SendKeysDelete(c, outcome)

NextConcurrent == \E c \in Callers : ConcurrentStep(c)

-----------------------------------------------------------------------------
(* clients/tmux.py: sessions and windows *)

\* Paths are texts.  The file system the client runs on:
\*   "/h"  the current directory of the process
\*   "/w"  a directory
\*   "/l"  a symbolic link to "/w"
\*   "/f"  a regular file
\*   "/m"  no such file
HomeDir == <<47, 104>>
WorkDir == <<47, 119>>
LinkPath == <<47, 108>>
FilePath == <<47, 102>>
MissingPath == <<47, 109>>

\* the working_directory arguments
WorkingDirectories ==
    {None, Some(WorkDir), Some(LinkPath), Some(FilePath), Some(MissingPath)}

\* os.getcwd()
getcwd == HomeDir

\* os.path.realpath(path): symbolic links resolved
realpath(path) == IF path = LinkPath THEN WorkDir ELSE path

\* os.path.isdir(path); it follows symbolic links
isdir(path) == path \in {HomeDir, WorkDir, LinkPath}

WorkingDirectoryDoesNotExist == "ValueError: Working directory does not exist"
SessionNotFound == "ValueError: Session not found"
WindowNotFound == "ValueError: Window not found"
WindowNameIsNone == "ValueError: Window name is None"
\* whatever libtmux raises when a lookup or a tmux command fails
LibTmuxException == "LibTmuxException"

\* the working directory validated and returned as given, symbolic links
\* not resolved
resolve_NoRealpath(working_directory) ==
    LET given == IF working_directory = None THEN getcwd ELSE working_directory[1]
    IN  IF ~isdir(given)
        THEN [ok |-> FALSE, err |-> WorkingDirectoryDoesNotExist, path |-> <<>>]
        ELSE [ok |-> TRUE, err |-> "none", path |-> given]

\* _resolve_and_validate_working_directory: the canonical path, or ValueError
resolve_and_validate_working_directory(working_directory) ==
    LET given == IF working_directory = None THEN getcwd ELSE working_directory[1]
        real_path == realpath(given)
    IN  IF ~isdir(real_path)
        THEN [ok |-> FALSE, err |-> WorkingDirectoryDoesNotExist, path |-> <<>>]
        ELSE [ok |-> TRUE, err |-> "none", path |-> real_path]

ServerSessions == {"sess"}
TerminalIds == {"t1"}
LogFiles == {"/log"}

\* a window of the tmux server: its name, the directory it was started in,
\* the CAO_TERMINAL_ID of its environment, the file its pane is piped to, the
\* current directory of the shell in its pane, and the number of input events
\* of the pane that shell has consumed
Window(name, dir, tid) ==
    [name |-> name, dir |-> dir, tid |-> tid, pipe |-> "none", cwd |-> dir, ran |-> 0]

NoSessions == [sn \in {} |-> <<>>]

\* the server with session sn set to the window list ws
WithSession(srv, sn, ws) ==
    [x \in DOMAIN srv \cup {sn} |-> IF x = sn THEN ws ELSE srv[x]]

\* the server without session sn
WithoutSession(srv, sn) == [x \in DOMAIN srv \ {sn} |-> srv[x]]

\* no operation has been called yet
NoCall ==
    [op |-> "none", sn |-> "none", wn |-> "none", wd |-> None, mx |-> "ok", mux |-> <<>>,
     before |-> NoSessions, ok |-> TRUE, value |-> "none", err |-> "none"]

\* the record of an operation that has ended: mx tells how the multiplexer
\* library answered, mux lists the multiplexer calls the operation made, in
\* order
Ended(mx, op, sn, wn, wd, mux, ok, value, err) ==
    [op |-> op, sn |-> sn, wn |-> wn, wd |-> wd, mx |-> mx, mux |-> mux,
     before |-> server, ok |-> ok, value |-> value, err |-> err]

InitServer ==
    /\ server = NoSessions
    /\ last = NoCall

\* create_session asking new_session to replace a live session of the same
\* name (kill_session=True) instead of failing
CreateSession_KillExisting(sn, wn, tid, wd, mx) ==
    LET dir == resolve_and_validate_working_directory(wd)
    IN  /\ IF ~dir.ok
           THEN /\ last' = Ended(mx, "create_session", sn, wn, wd, <<>>, FALSE, "none", dir.err)
                /\ UNCHANGED server
           ELSE IF mx = "raises"
           THEN /\ last' = Ended(mx, "create_session", sn, wn, wd, <<"new_session">>,
                                 FALSE, "none", LibTmuxException)
                /\ UNCHANGED server
           ELSE /\ server' = WithSession(server, sn, <<Window(wn, dir.path, tid)>>)
                /\ last' = IF mx = "name_none"
                           THEN Ended(mx, "create_session", sn, wn, wd, <<"new_session">>,
                                      FALSE, "none", WindowNameIsNone)
                           ELSE Ended(mx, "create_session", sn, wn, wd, <<"new_session">>,
                                      TRUE, wn, "none")
        /\ UNCHANGED tmuxVars
        /\ UNCHANGED kiroVars

\* create_session (lines 45-75).  new_session fails when the multiplexer
\* fails or the session name is in use; the name read back from the new
\* window may be None.
CreateSession(sn, wn, tid, wd, mx) ==
    LET dir == resolve_and_validate_working_directory(wd)
    IN  /\ IF ~dir.ok
           THEN /\ last' = Ended(mx, "create_session", sn, wn, wd, <<>>, FALSE, "none", dir.err)
                /\ UNCHANGED server
           ELSE IF mx = "raises" \/ sn \in DOMAIN server
           THEN /\ last' = Ended(mx, "create_session", sn, wn, wd, <<"new_session">>,
                                 FALSE, "none", LibTmuxException)
                /\ UNCHANGED server
           ELSE /\ server' = WithSession(server, sn, <<Window(wn, dir.path, tid)>>)
                /\ last' = IF mx = "name_none"
                           THEN Ended(mx, "create_session", sn, wn, wd, <<"new_session">>,
                                      FALSE, "none", WindowNameIsNone)
                           ELSE Ended(mx, "create_session", sn, wn, wd, <<"new_session">>,
                                      TRUE, wn, "none")
        /\ UNCHANGED tmuxVars
        /\ UNCHANGED kiroVars

\* self.server.sessions.get(session_name=...): the session, None, or an
\* exception of the library
SessionLookup(sn, mx) ==
    IF mx = "session_lookup_raises" THEN "raises"
    ELSE IF sn \in DOMAIN server THEN "found"
    ELSE "none"

\* the position of the first window named wn in the window list ws, or 0
WindowIndex(ws, wn) ==
    IF \E i \in 1..Len(ws) : ws[i].name = wn
    THEN First({i \in 1..Len(ws) : ws[i].name = wn})
    ELSE 0

\* session.windows.get(window_name=...)
WindowLookup(sn, wn, mx) ==
    IF mx = "window_lookup_raises" THEN "raises"
    ELSE IF WindowIndex(server[sn], wn) # 0 THEN "found"
    ELSE "none"

\* create_window looking the session up before it validates the directory
CreateWindow_LookupFirst(sn, wn, tid, wd, mx) ==
    LET dir == resolve_and_validate_working_directory(wd)
        session == SessionLookup(sn, mx)
        op(mux, ok, value, err) == Ended(mx, "create_window", sn, wn, wd, mux, ok, value, err)
    IN  /\ IF session = "raises"
           THEN /\ last' = op(<<"sessions.get">>, FALSE, "none", LibTmuxException)
                /\ UNCHANGED server
           ELSE IF session = "none"
           THEN /\ last' = op(<<"sessions.get">>, FALSE, "none", SessionNotFound)
                /\ UNCHANGED server
           ELSE IF ~dir.ok
           THEN /\ last' = op(<<"sessions.get">>, FALSE, "none", dir.err)
                /\ UNCHANGED server
           ELSE IF mx = "raises"
           THEN /\ last' = op(<<"sessions.get", "new_window">>, FALSE, "none", LibTmuxException)
                /\ UNCHANGED server
           ELSE /\ Len(server[sn]) < MaxWindows
                /\ server' = WithSession(server, sn,
                                         Append(server[sn], Window(wn, dir.path, tid)))
                /\ last' = IF mx = "name_none"
                           THEN op(<<"sessions.get", "new_window">>, FALSE, "none",
                                   WindowNameIsNone)
                           ELSE op(<<"sessions.get", "new_window">>, TRUE, wn, "none")
        /\ UNCHANGED tmuxVars
        /\ UNCHANGED kiroVars

\* create_window (lines 77-107)
CreateWindow(sn, wn, tid, wd, mx) ==
    LET dir == resolve_and_validate_working_directory(wd)
        session == SessionLookup(sn, mx)
    IN  /\ IF ~dir.ok
           THEN /\ last' = Ended(mx, "create_window", sn, wn, wd, <<>>, FALSE, "none", dir.err)
                /\ UNCHANGED server
           ELSE IF session = "raises"
           THEN /\ last' = Ended(mx, "create_window", sn, wn, wd, <<"sessions.get">>,
                                 FALSE, "none", LibTmuxException)
                /\ UNCHANGED server
           ELSE IF session = "none"
           THEN /\ last' = Ended(mx, "create_window", sn, wn, wd, <<"sessions.get">>,
                                 FALSE, "none", SessionNotFound)
                /\ UNCHANGED server
           ELSE IF mx = "raises"
           THEN /\ last' = Ended(mx, "create_window", sn, wn, wd, <<"sessions.get", "new_window">>,
                                 FALSE, "none", LibTmuxException)
                /\ UNCHANGED server
           ELSE /\ Len(server[sn]) < MaxWindows
                /\ server' = WithSession(server, sn,
                                         Append(server[sn], Window(wn, dir.path, tid)))
                /\ last' = IF mx = "name_none"
                           THEN Ended(mx, "create_window", sn, wn, wd,
                                      <<"sessions.get", "new_window">>,
                                      FALSE, "none", WindowNameIsNone)
                           ELSE Ended(mx, "create_window", sn, wn, wd,
                                      <<"sessions.get", "new_window">>, TRUE, wn, "none")
        /\ UNCHANGED tmuxVars
        /\ UNCHANGED kiroVars

\* the rendered lines capture-pane can print: none, or ">" and "Hi"
PaneLines == {<<>>, << <<GT>>, <<72, 105>> >>}

\* "\n".join(lines)
RECURSIVE JoinLines(_)
JoinLines(lines) ==
    IF lines = <<>> THEN <<>>
    ELSE IF Len(lines) = 1 THEN lines[1]
    ELSE lines[1] \o <<LF>> \o JoinLines(Tail(lines))

\* the capture-pane invocation of get_history (lines 165-166)
CapturePaneCmd(tail_lines) ==
    "capture-pane -e -p -S -"
        \o (IF tail_lines # None THEN ToString(tail_lines[1]) ELSE "TMUX_HISTORY_LINES")

\* get_history without the `if not window` check: the capture is attempted on
\* whatever the window lookup returned
GetHistory_NoWindowCheck(sn, wn, tail_lines, mx, stdout) ==
    LET session == SessionLookup(sn, mx)
        op(mux, ok, value, err) == Ended(mx, "get_history", sn, wn, None, mux, ok, value, err)
    IN  /\ last' =
               IF session = "raises"
               THEN op(<<"sessions.get">>, FALSE, "none", LibTmuxException)
               ELSE IF session = "none"
               THEN op(<<"sessions.get">>, FALSE, "none", SessionNotFound)
               ELSE LET window == WindowLookup(sn, wn, mx)
                        looked == <<"sessions.get", "windows.get">>
                    IN  IF window = "raises"
                        THEN op(looked, FALSE, "none", LibTmuxException)
                        ELSE IF mx = "raises"
                        THEN op(Append(looked, CapturePaneCmd(tail_lines)),
                                FALSE, "none", LibTmuxException)
                        ELSE op(Append(looked, CapturePaneCmd(tail_lines)), TRUE,
                                IF stdout # <<>> THEN JoinLines(stdout) ELSE <<>>, "none")
        /\ UNCHANGED server
        /\ UNCHANGED tmuxVars
        /\ UNCHANGED kiroVars

\* get_history (lines 144-171)
GetHistory(sn, wn, tail_lines, mx, stdout) ==
    LET session == SessionLookup(sn, mx)
        op(mux, ok, value, err) == Ended(mx, "get_history", sn, wn, None, mux, ok, value, err)
    IN  /\ last' =
               IF session = "raises"
               THEN op(<<"sessions.get">>, FALSE, "none", LibTmuxException)
               ELSE IF session = "none"
               THEN op(<<"sessions.get">>, FALSE, "none", SessionNotFound)
               ELSE LET window == WindowLookup(sn, wn, mx)
                        looked == <<"sessions.get", "windows.get">>
                    IN  IF window = "raises"
                        THEN op(looked, FALSE, "none", LibTmuxException)
                        ELSE IF window = "none"
                        THEN op(looked, FALSE, "none", WindowNotFound)
                        ELSE IF mx = "raises"
                        THEN op(Append(looked, CapturePaneCmd(tail_lines)),
                                FALSE, "none", LibTmuxException)
                        ELSE op(Append(looked, CapturePaneCmd(tail_lines)), TRUE,
                                IF stdout # <<>> THEN JoinLines(stdout) ELSE <<>>, "none")
        /\ UNCHANGED server
        /\ UNCHANGED tmuxVars
        /\ UNCHANGED kiroVars

\* the order in which the server lists its sessions
SessionOrder == <<"sess">>

\* list_sessions without its try/except: a failure of the multiplexer
\* reaches the caller
ListSessions_NoExcept(attached, mx) ==
    LET live == SelectSeq(SessionOrder, LAMBDA sn : sn \in DOMAIN server)
        sessions == [i \in 1..Len(live) |->
                        [id |-> live[i], name |-> live[i],
                         status |-> IF attached[live[i]] THEN "active" ELSE "detached"]]
    IN  /\ last' = IF mx = "raises"
                   THEN Ended(mx, "list_sessions", "none", "none", None, <<"sessions">>,
                              FALSE, "none", LibTmuxException)
                   ELSE Ended(mx, "list_sessions", "none", "none", None, <<"sessions">>,
                              TRUE, sessions, "none")
        /\ UNCHANGED server
        /\ UNCHANGED tmuxVars
        /\ UNCHANGED kiroVars

\* list_sessions (lines 173-193); attached[sn] tells whether a client is
\* attached to session sn at the time of the call
ListSessions(attached, mx) ==
    LET live == SelectSeq(SessionOrder, LAMBDA sn : sn \in DOMAIN server)
        sessions == [i \in 1..Len(live) |->
                        [id |-> live[i], name |-> live[i],
                         status |-> IF attached[live[i]] THEN "active" ELSE "detached"]]
    IN  /\ last' = IF mx = "raises"
                   THEN Ended(mx, "list_sessions", "none", "none", None, <<"sessions">>,
                              TRUE, <<>>, "none")
                   ELSE Ended(mx, "list_sessions", "none", "none", None, <<"sessions">>,
                              TRUE, sessions, "none")
        /\ UNCHANGED server
        /\ UNCHANGED tmuxVars
        /\ UNCHANGED kiroVars

\* get_session_windows (lines 195-210)
GetSessionWindows(sn, mx) ==
    LET session == SessionLookup(sn, mx)
        op(mux, value) ==
            Ended(mx, "get_session_windows", sn, "none", None, mux, TRUE, value, "none")
    IN  /\ last' =
               IF session \in {"raises", "none"} THEN op(<<"sessions.get">>, <<>>)
               ELSE IF mx = "raises" THEN op(<<"sessions.get", "windows">>, <<>>)
               ELSE op(<<"sessions.get", "windows">>,
                       [i \in 1..Len(server[sn]) |->
                           [name |-> server[sn][i].name, index |-> ToString(i - 1)]])
        /\ UNCHANGED server
        /\ UNCHANGED tmuxVars
        /\ UNCHANGED kiroVars

\* kill_session without its try/except: a failure of the lookup or of the
\* kill reaches the caller
KillSession_NoExcept(sn, mx) ==
    LET session == SessionLookup(sn, mx)
        op(mux, ok, value, err) ==
            Ended(mx, "kill_session", sn, "none", None, mux, ok, value, err)
    IN  /\ IF session = "raises"
           THEN /\ last' = op(<<"sessions.get">>, FALSE, "none", LibTmuxException)
                /\ UNCHANGED server
           ELSE IF session = "none"
           THEN /\ last' = op(<<"sessions.get">>, TRUE, FALSE, "none")
                /\ UNCHANGED server
           ELSE IF mx = "raises"
           THEN /\ last' = op(<<"sessions.get", "kill">>, FALSE, "none", LibTmuxException)
                /\ UNCHANGED server
           ELSE /\ last' = op(<<"sessions.get", "kill">>, TRUE, TRUE, "none")
                /\ server' = WithoutSession(server, sn)
        /\ UNCHANGED tmuxVars
        /\ UNCHANGED kiroVars

\* kill_session (lines 212-223)
KillSession(sn, mx) ==
    LET session == SessionLookup(sn, mx)
        op(mux, value) == Ended(mx, "kill_session", sn, "none", None, mux, TRUE, value, "none")
    IN  /\ IF session \in {"raises", "none"}
           THEN /\ last' = op(<<"sessions.get">>, FALSE)
                /\ UNCHANGED server
           ELSE IF mx = "raises"
           THEN /\ last' = op(<<"sessions.get", "kill">>, FALSE)
                /\ UNCHANGED server
           ELSE /\ last' = op(<<"sessions.get", "kill">>, TRUE)
                /\ server' = WithoutSession(server, sn)
        /\ UNCHANGED tmuxVars
        /\ UNCHANGED kiroVars

\* session_exists (lines 225-231)
SessionExists(sn, mx) ==
    /\ last' = Ended(mx, "session_exists", sn, "none", None, <<"sessions.get">>, TRUE,
                     SessionLookup(sn, mx) = "found", "none")
    /\ UNCHANGED server
    /\ UNCHANGED tmuxVars
    /\ UNCHANGED kiroVars

\* get_pane_working_directory (lines 233-253); padded tells whether the line
\* tmux prints carries trailing white space
GetPaneWorkingDirectory(sn, wn, mx, padded) ==
    LET session == SessionLookup(sn, mx)
        op(mux, value) ==
            Ended(mx, "get_pane_working_directory", sn, wn, None, mux, TRUE, value, "none")
    IN  /\ last' =
               IF session \in {"raises", "none"} THEN op(<<"sessions.get">>, None)
               ELSE LET window == WindowLookup(sn, wn, mx)
                        looked == <<"sessions.get", "windows.get">>
                        line == server[sn][WindowIndex(server[sn], wn)].cwd
                                    \o (IF padded THEN <<32>> ELSE <<>>)
                    IN  IF window \in {"raises", "none"} THEN op(looked, None)
                        ELSE IF mx = "no_active_pane" THEN op(looked, None)
                        ELSE IF mx \in {"raises", "empty_stdout"}
                        THEN op(Append(looked, "display-message -p #{pane_current_path}"), None)
                        ELSE op(Append(looked, "display-message -p #{pane_current_path}"),
                                Some(Strip(line)))
        /\ UNCHANGED server
        /\ UNCHANGED tmuxVars
        /\ UNCHANGED kiroVars

\* the server after `pipe` of the first window named wn of session sn is set
WithPipe(srv, sn, wn, pipe) ==
    LET i == WindowIndex(srv[sn], wn)
    IN  WithSession(srv, sn, [srv[sn] EXCEPT ![i].pipe = pipe])

\* pipe_pane (lines 255-278) and stop_pipe_pane (lines 280-302): stop is TRUE
\* for stop_pipe_pane.  tmux pipe-pane closes the pane's pipe if there is one;
\* with -o and a command it then opens the new pipe only if there was none.
PipePane(stop, sn, wn, file_path, mx) ==
    LET session == SessionLookup(sn, mx)
        name == IF stop THEN "stop_pipe_pane" ELSE "pipe_pane"
        cmd == IF stop THEN "pipe-pane" ELSE "pipe-pane -o cat >> " \o file_path
        op(mux, ok, err) == Ended(mx, name, sn, wn, None, mux, ok, "none", err)
    IN  IF session = "raises"
        THEN /\ last' = op(<<"sessions.get">>, FALSE, LibTmuxException)
             /\ UNCHANGED server
        ELSE IF session = "none"
        THEN /\ last' = op(<<"sessions.get">>, FALSE, SessionNotFound)
             /\ UNCHANGED server
        ELSE LET window == WindowLookup(sn, wn, mx)
                 looked == <<"sessions.get", "windows.get">>
                 old == server[sn][WindowIndex(server[sn], wn)].pipe
             IN  IF window = "raises"
                 THEN /\ last' = op(looked, FALSE, LibTmuxException)
                      /\ UNCHANGED server
                 ELSE IF window = "none"
                 THEN /\ last' = op(looked, FALSE, WindowNotFound)
                      /\ UNCHANGED server
                 ELSE IF mx = "no_active_pane"
                 THEN /\ last' = op(looked, TRUE, "none")
                      /\ UNCHANGED server
                 ELSE IF mx = "raises"
                 THEN /\ last' = op(Append(looked, cmd), FALSE, LibTmuxException)
                      /\ UNCHANGED server
                 ELSE /\ last' = op(Append(looked, cmd), TRUE, "none")
                      /\ server' = WithPipe(server, sn, wn,
                                            IF stop \/ old # "none" THEN "none" ELSE file_path)

PipePaneOp(stop, sn, wn, file_path, mx) ==
    /\ PipePane(stop, sn, wn, file_path, mx)
    /\ UNCHANGED tmuxVars
    /\ UNCHANGED kiroVars

\* how the multiplexer library can answer within one operation: everything
\* works, the session or window lookup raises, the command raises, the window
\* has no active pane, the command prints nothing, the window's name is None
CreateOutcomes == {"ok", "session_lookup_raises", "raises", "name_none"}
LookupOutcomes == {"ok", "session_lookup_raises", "window_lookup_raises", "raises"}
PaneOutcomes == LookupOutcomes \cup {"no_active_pane", "empty_stdout"}
SoftOutcomes == {"ok", "session_lookup_raises", "raises"}

NextServer ==
    \/ \E sn \in ServerSessions, wn \in Windows, tid \in TerminalIds,
          wd \in WorkingDirectories, mx \in CreateOutcomes :
           CreateSession(sn, wn, tid, wd, mx)
    \/ \E sn \in ServerSessions, wn \in Windows, tid \in TerminalIds,
          wd \in WorkingDirectories, mx \in CreateOutcomes :
           CreateWindow(sn, wn, tid, wd, mx)
    \/ \E sn \in ServerSessions, wn \in Windows, tail_lines \in TailLines,
          mx \in LookupOutcomes, stdout \in PaneLines :
           GetHistory(sn, wn, tail_lines, mx, stdout)
    \/ \E attached \in [ServerSessions -> BOOLEAN], mx \in SoftOutcomes :
           ListSessions(attached, mx)
    \/ \E sn \in ServerSessions, mx \in SoftOutcomes : GetSessionWindows(sn, mx)
    \/ \E sn \in ServerSessions, mx \in SoftOutcomes : KillSession(sn, mx)
    \/ \E sn \in ServerSessions, mx \in {"ok", "session_lookup_raises"} :
           SessionExists(sn, mx)
    \/ \E sn \in ServerSessions, wn \in Windows, mx \in PaneOutcomes, padded \in BOOLEAN :
           GetPaneWorkingDirectory(sn, wn, mx, padded)
    \/ \E stop \in BOOLEAN, sn \in ServerSessions, wn \in Windows, file_path \in LogFiles,
          mx \in LookupOutcomes \cup {"no_active_pane"} :
           PipePaneOp(stop, sn, wn, file_path, mx)

-----------------------------------------------------------------------------
(* The shell in a window's pane: send_keys, capture and working directory *)

\* the commands sent to the shell: "cd /h", "cd /l", "cd /m"
CdPrefix == <<99, 100, 32>>
CdCommands == {CdPrefix \o HomeDir, CdPrefix \o LinkPath, CdPrefix \o MissingPath}

\* the shell's directory after it ran the input line `line` in directory cwd:
\* `cd path` changes it to the real path when that is a directory; the pane's
\* current path is the directory of the process, in which links are resolved
CdResult(line, cwd) ==
    LET path == SubSeq(line, Len(CdPrefix) + 1, Len(line))
    IN  IF LitAt(line, 1, CdPrefix) /\ isdir(realpath(path)) THEN realpath(path) ELSE cwd

\* the input lines a pane has received: pasted bytes are decoded and appended
\* to the current line, Enter ends the line; the line being typed comes last
RECURSIVE InputLines(_, _)
InputLines(events, line) ==
    IF events = <<>> THEN (IF line = <<>> THEN <<>> ELSE <<line>>)
    ELSE IF Head(events).kind = "key" THEN <<line>> \o InputLines(Tail(events), <<>>)
    ELSE InputLines(Tail(events), line \o DecodeUtf8(Head(events).data))

\* the position of the first Enter after position n of the events, or 0
NextEnter(events, n) == First({k \in (n + 1)..Len(events) : events[k].kind = "key"})

\* the text typed between position n of the events and the Enter at position e
RECURSIVE TypedBetween(_, _, _)
TypedBetween(events, n, e) ==
    IF n + 1 >= e THEN <<>>
    ELSE DecodeUtf8(events[n + 1].data) \o TypedBetween(events, n + 1, e)

\* the window named wn of session sn exists
WindowExists(srv, sn, wn) == sn \in DOMAIN srv /\ WindowIndex(srv[sn], wn) # 0

\* the shell in the pane of window sn:wn runs the next submitted input line
ShellRuns(sn, wn) ==
    /\ WindowExists(server, sn, wn)
    /\ LET i == WindowIndex(server[sn], wn)
           w == server[sn][i]
           events == pane[Target(sn, wn)]
           e == NextEnter(events, w.ran)
       IN  /\ e # 0
           /\ server' = WithSession(server, sn,
                  [server[sn] EXCEPT ![i].cwd = CdResult(TypedBetween(events, w.ran, e), w.cwd),
                                     ![i].ran = e])
    /\ UNCHANGED last
    /\ UNCHANGED tmuxVars
    /\ UNCHANGED kiroVars

\* send_keys of a cd command to a window
PaneSendKeysBegin(c) ==
    \E sn \in ServerSessions, wn \in Windows, text \in CdCommands, hex \in Uuid4Hex :
        SendKeysBegin(c, sn, wn, text, hex)

\* tmux pastes and sends keys only into a window that exists
PaneSendKeysPaste(c, outcome) ==
    /\ outcome = "ok" => WindowExists(server, session_name[c], window_name[c])
    /\ SendKeysPaste(c, outcome)

PaneSendKeysSubmit(c, outcome) ==
    /\ outcome = "ok" => WindowExists(server, session_name[c], window_name[c])
    /\ SendKeysSubmit(c, outcome)

\* get_history made to wait until no send_keys call is in flight
PaneGetHistory_Serialized(sn, wn, tail_lines, mx) ==
    /\ \A c \in Callers : pc[c] = "idle"
    /\ GetHistory(sn, wn, tail_lines, mx, InputLines(pane[Target(sn, wn)], <<>>))

\* get_history of a window: capture-pane prints the pane's lines
PaneGetHistory(sn, wn, tail_lines, mx) ==
    GetHistory(sn, wn, tail_lines, mx, InputLines(pane[Target(sn, wn)], <<>>))

\* how the multiplexer library answers here: everything works, or the pane
\* command raises
ShellOutcomes == {"ok", "raises"}

NextPane ==
    \/ \E sn \in ServerSessions, wn \in Windows, tid \in TerminalIds,
          wd \in WorkingDirectories, mx \in ShellOutcomes :
           CreateSession(sn, wn, tid, wd, mx)
    \/ \E c \in SequentialCallers : PaneSendKeysBegin(c)
    \/ \E c \in SequentialCallers, outcome \in Outcomes : SendKeysLoad(c, outcome)
    \/ \E c \in SequentialCallers, outcome \in Outcomes : PaneSendKeysPaste(c, outcome)
    \/ \E c \in SequentialCallers, outcome \in Outcomes : PaneSendKeysSubmit(c, outcome)
    \/ \E c \in SequentialCallers, outcome \in Outcomes : SendKeysDelete(c, outcome)
    \/ \E sn \in ServerSessions, wn \in Windows : ShellRuns(sn, wn)
    \/ \E sn \in ServerSessions, wn \in Windows, mx \in ShellOutcomes :
           PaneGetHistory(sn, wn, None, mx)
    \/ \E sn \in ServerSessions, wn \in Windows, mx \in ShellOutcomes, padded \in BOOLEAN :
           GetPaneWorkingDirectory(sn, wn, mx, padded)

-----------------------------------------------------------------------------
(* Specifications *)

Init == InitTmux /\ InitServer /\ InitKiro

\* the tmux client driven by one caller
Next == NextTmux

Spec == Init /\ [][Next]_vars

\* the tmux client driven by two callers whose calls overlap
SpecConcurrent == Init /\ [][NextConcurrent]_vars

\* the tmux client's session and window operations, called one at a time
SpecServer == Init /\ [][NextServer]_vars

\* a session's window with a shell in its pane: send_keys into it, captures
\* of it and queries of its working directory, in any order
SpecPane == Init /\ [][NextPane]_vars

\* the operations of a Kiro CLI provider object, called one at a time while
\* its pane prints
SpecProvider == Init /\ [][NextProvider]_vars

\* a provider of one of several profiles classifying what its pane prints
ProfileInit == InitTmux /\ InitServer /\ InitProfile

SpecProfile == ProfileInit /\ [][NextProfile]_vars

\* the classifier and the extractor applied to one finished round, for every
\* reply of the bounded set
ReplyInit == InitTmux /\ InitServer /\ InitReply

SpecReply == ReplyInit /\ [][NextReply]_vars

\* the Kiro CLI provider watching a pane
SpecKiro == Init /\ [][NextKiro]_vars

-----------------------------------------------------------------------------
(* Claims about send_keys *)

\* caller c's call has ended
Finished(c) == pc[c] = "idle" /\ ret[c] # "none"

\* the load-buffer invocations among the commands of caller c's call
Loads(c) == SelectSeq(cmds[c], LAMBDA r : r.argv[2] = "load-buffer")

\* C1: a send_keys call that returns normally (no step failed) has issued
\* exactly four commands, in this order: load-buffer into its staging buffer,
\* paste-buffer -p of that buffer into session:window, send-keys Enter to the
\* same target, delete-buffer of that buffer; for every text, the empty one
\* included.
C1_FourCommandsInOrder ==
    \A c \in Callers :
        (Finished(c) /\ ret[c] = "returned") =>
            LET tgt == session_name[c] \o ":" \o window_name[c]
            IN  /\ Len(cmds[c]) = 4
                /\ cmds[c][1].argv = <<"tmux", "load-buffer", "-b", buf_name[c], "-">>
                /\ cmds[c][2].argv =
                       <<"tmux", "paste-buffer", "-p", "-b", buf_name[c], "-t", tgt>>
                /\ cmds[c][3].argv = <<"tmux", "send-keys", "-t", tgt, "Enter">>
                /\ cmds[c][4].argv = <<"tmux", "delete-buffer", "-b", buf_name[c]>>

\* C1 witness: a call with the empty text went through all four steps, none
\* of which failed
C1_Witness ==
    \E c \in Callers :
        /\ Finished(c)
        /\ ret[c] = "returned"
        /\ keys[c] = <<>>
        /\ Len(cmds[c]) = 4
        /\ \A k \in 1..4 : cmds[c][k].outcome = "ok"

\* the load, paste or submit step of caller c's call failed
TryFailed(c) ==
    \/ ~Encodable(keys[c])
    \/ \E k \in 1..Len(cmds[c]) : cmds[c][k].check /\ cmds[c][k].outcome # "ok"

\* C2: when the load, paste or submit step fails, the later ones of these
\* steps are skipped, delete-buffer of the call's staging buffer is still the
\* last command of the call, and the call ends raising, never returning; no
\* call has ended before its delete step.
C2_CleanupThenRaise ==
    \A c \in Callers :
        /\ pc[c] # "idle" => ret[c] = "none"
        /\ (Finished(c) /\ TryFailed(c)) =>
               LET n == Len(cmds[c])
               IN  /\ ret[c] # "returned"
                   /\ n >= 1
                   /\ cmds[c][n].argv = <<"tmux", "delete-buffer", "-b", buf_name[c]>>
                   /\ \A k \in 1..(n - 1) : cmds[c][k].outcome # "ok" => k = n - 1
                   /\ ~Encodable(keys[c]) => n = 1

\* C2 witness: load succeeded, paste failed, Enter was never sent, the buffer
\* was deleted and the paste's failure reached the caller
C2_Witness ==
    \E c \in Callers :
        /\ Finished(c)
        /\ Len(cmds[c]) = 3
        /\ cmds[c][2].argv[2] = "paste-buffer"
        /\ cmds[c][2].outcome = "nonzero"
        /\ cmds[c][3].argv[2] = "delete-buffer"
        /\ ret[c] = "CalledProcessError"

\* C3 (as claimed): for every text, once the load step is over, the call has
\* performed exactly one load, whose payload is the text's encoding unchanged
\* (it decodes to the text), and a call none of whose commands failed has
\* issued four commands whatever the text.
C3_OneVerbatimLoadForEveryText ==
    \A c \in Callers :
        (pc[c] \in {"paste", "submit", "delete"} \/ Finished(c)) =>
            /\ Len(Loads(c)) = 1
            /\ DecodeUtf8(Loads(c)[1].input) = keys[c]
            /\ (Finished(c) /\ \A k \in 1..Len(cmds[c]) : cmds[c][k].outcome = "ok")
                   => Len(cmds[c]) = 4

\* caller c has entered send_keys (its call is in progress or has ended)
Called(c) == buf_name[c] # "none"

\* C13 (as claimed): when two send_keys calls into different panes overlap,
\* each pane is pasted only the text of the call that targets it, a call that
\* returns normally has delivered exactly its text and Enter, and between its
\* load and its paste a call's staging buffer still holds its own text (no
\* other call has overwritten or deleted it).
C13_NoCrossTalk ==
    \A c \in Callers :
        Called(c) =>
            /\ \A k \in 1..Len(pane[target(c)]) :
                   pane[target(c)][k].kind = "paste" =>
                       pane[target(c)][k].data = Encode(keys[c])
            /\ pc[c] = "paste" =>
                   /\ buf_name[c] \in DOMAIN buffers
                   /\ buffers[buf_name[c]] = Encode(keys[c])
            /\ (Finished(c) /\ ret[c] = "returned") =>
                   pane[target(c)] = << [kind |-> "paste", data |-> Encode(keys[c])],
                                        [kind |-> "key", data |-> "Enter"] >>

\* C14 (as claimed): any two send_keys calls use distinct staging-buffer
\* names, whether they overlap or one follows the other.
C14_DistinctBufferNames ==
    \A c, d \in Callers :
        (c # d /\ Called(c) /\ Called(d)) => buf_name[c] # buf_name[d]

\* no send_keys call is in progress
NoCallInProgress == \A c \in Callers : pc[c] = "idle"

\* the last command of caller c's call (meaningful when cmds[c] is not empty)
LastCmd(c) == cmds[c][Len(cmds[c])]

\* C15 (as claimed): after a send_keys call has returned or raised, its
\* staging buffer no longer exists, and the set of live staging buffers is
\* empty whenever no call is in progress.
C15_NoBufferLeaked ==
    /\ \A c \in Callers : Finished(c) => buf_name[c] \notin DOMAIN buffers
    /\ NoCallInProgress => buffers = NoBuffers

\* C15 (amended): a call that has returned or raised has issued delete-buffer
\* for its staging buffer as its last command, and whenever no call is in
\* progress every staging buffer still live is one whose call's delete-buffer
\* command failed: no buffer is left behind by a call whose delete succeeded,
\* whatever happened in its load, paste and submit steps.
C15_NoLeakUnlessDeleteFailed ==
    /\ \A c \in Callers :
           Finished(c) =>
               /\ cmds[c] # <<>>
               /\ LastCmd(c).argv = <<"tmux", "delete-buffer", "-b", buf_name[c]>>
    /\ NoCallInProgress =>
           \A b \in DOMAIN buffers :
               \E c \in Callers :
                   /\ Finished(c)
                   /\ buf_name[c] = b
                   /\ LastCmd(c).outcome # "ok"

\* C15 witness: a call loaded its buffer, failed in the paste step and raised;
\* its delete-buffer succeeded, and with no call in progress no buffer is live
C15_Witness ==
    /\ NoCallInProgress
    /\ buffers = NoBuffers
    /\ \E c \in Callers :
           /\ Finished(c)
           /\ ret[c] # "returned"
           /\ Len(cmds[c]) = 3
           /\ cmds[c][1].outcome = "ok"
           /\ cmds[c][2].outcome # "ok"
           /\ cmds[c][3].outcome = "ok"

\* the way caller c's call must end if only load, paste and submit decide it:
\* the exception of the step that failed, or a normal return
TryResult(c) ==
    IF ~Encodable(keys[c]) THEN "UnicodeEncodeError"
    ELSE LET failed == {k \in 1..Len(cmds[c]) :
                           cmds[c][k].check /\ cmds[c][k].outcome # "ok"}
         IN  IF failed = {} THEN "returned"
             ELSE RunRaises(TRUE, cmds[c][First(failed)].outcome)

\* C16 (as claimed): the delete step never raises: a call whose load, paste
\* and submit succeeded returns normally even when its delete fails, and a
\* call in which one of them failed ends with that step's exception.
C16_DeleteNeverRaises ==
    \A c \in Callers : Finished(c) => ret[c] = TryResult(c)

-----------------------------------------------------------------------------
(* Claims about the session and window operations *)

\* the working directory given to the last operation does not exist or is not
\* a directory
InvalidDirectoryGiven ==
    /\ last.wd # None
    /\ last.wd[1] \in {FilePath, MissingPath}

\* the session named in the last operation did not exist when it was called
SessionMissing == last.sn \notin DOMAIN last.before

\* the session existed, and had no window of the name given
WindowMissing ==
    /\ last.sn \in DOMAIN last.before
    /\ \A i \in 1..Len(last.before[last.sn]) : last.before[last.sn][i].name # last.wn

\* C17: create_session and create_window called with a working directory that
\* does not exist or is not a directory fail with the invalid-directory error
\* before any multiplexer call: nothing is created, the sessions and windows
\* are unchanged, and in create_window this holds also when the session is
\* missing (the directory is checked before the session is looked up).
C17_InvalidDirectoryFirst ==
    (last.op \in {"create_session", "create_window"} /\ InvalidDirectoryGiven) =>
        /\ ~last.ok
        /\ last.err = WorkingDirectoryDoesNotExist
        /\ last.mux = <<>>
        /\ server = last.before

\* C17 witness: create_window was given a regular file as working directory
\* for a session that does not exist, and reported the directory
C17_Witness ==
    /\ last.op = "create_window"
    /\ last.wd = Some(FilePath)
    /\ SessionMissing
    /\ last.err = WorkingDirectoryDoesNotExist

C19_KillSessionIdempotent ==
    last.op = "kill_session" =>
        /\ last.ok
        /\ last.sn \in DOMAIN last.before =>
               /\ last.value = TRUE
               /\ last.sn \notin DOMAIN server
        /\ last.sn \notin DOMAIN last.before =>
               /\ last.value = FALSE
               /\ server = last.before

\* C19 (amended): kill_session never raises; it returns true exactly when the
\* session existed and the multiplexer carried out the lookup and the kill,
\* and then the session with all its windows is gone (a lookup finds nothing);
\* otherwise it returns false and changes nothing, on a non-existing session
\* in particular, so a kill that follows a successful kill returns false.
C19_KillSessionTrueIffKilled ==
    last.op = "kill_session" =>
        /\ last.ok
        /\ last.value = (last.sn \in DOMAIN last.before /\ last.mx = "ok")
        /\ last.value = TRUE =>
               /\ server = WithoutSession(last.before, last.sn)
               /\ SessionLookup(last.sn, "ok") = "none"
        /\ last.value = FALSE => server = last.before

\* C19 witness: a session with two windows was killed: true was returned and
\* the session is gone
C19_Witness ==
    /\ last.op = "kill_session"
    /\ last.value = TRUE
    /\ last.sn \in DOMAIN last.before
    /\ Len(last.before[last.sn]) = 2
    /\ last.sn \notin DOMAIN server

\* C20: list_sessions, session_exists, get_session_windows and
\* get_pane_working_directory never raise and change no session or window;
\* they return the empty list, false, the empty list and None when the
\* session, window or pane is missing or the multiplexer call fails.
C20_SoftOperations ==
    /\ last.op \in {"list_sessions", "session_exists", "get_session_windows",
                    "get_pane_working_directory"} =>
           /\ last.ok
           /\ server = last.before
    /\ (last.op = "list_sessions" /\ last.mx = "raises") => last.value = <<>>
    /\ (last.op = "session_exists"
           /\ (SessionMissing \/ last.mx = "session_lookup_raises")) => last.value = FALSE
    /\ (last.op = "get_session_windows"
           /\ (SessionMissing \/ last.mx \in {"session_lookup_raises", "raises"}))
           => last.value = <<>>
    /\ (last.op = "get_pane_working_directory"
           /\ (\/ SessionMissing
               \/ WindowMissing
               \/ last.mx \in {"session_lookup_raises", "window_lookup_raises",
                               "no_active_pane", "raises"}))
           => last.value = None

\* C20 witness: list_sessions was called while a session was live and the
\* multiplexer failed: the empty list was returned
C20_Witness ==
    /\ last.op = "list_sessions"
    /\ last.mx = "raises"
    /\ DOMAIN last.before # {}
    /\ last.ok
    /\ last.value = <<>>

\* C22: the server holds one session per name: a create_session that
\* succeeded was given a name no live session had, and create_session with the
\* name of a live session fails, creates nothing and leaves that session and
\* its windows as they were, whatever creations and kills came before.
C22_UniqueSessionNames ==
    last.op = "create_session" =>
        /\ last.ok => last.sn \notin DOMAIN last.before
        /\ last.sn \in DOMAIN last.before =>
               /\ ~last.ok
               /\ server = last.before

\* C22 witness: create_session, given a valid directory and an answering
\* multiplexer, was called with the name of a live session that has two
\* windows, and failed
C22_Witness ==
    /\ last.op = "create_session"
    /\ last.mx = "ok"
    /\ ~InvalidDirectoryGiven
    /\ last.sn \in DOMAIN last.before
    /\ Len(last.before[last.sn]) = 2
    /\ ~last.ok
    /\ server = last.before

-----------------------------------------------------------------------------
(* Claims about a window's pane *)

\* the directory of the shell that started in cwd and has run the input lines
\* submitted within the first ran events, n of which are already accounted for
RECURSIVE ShellCwdAfter(_, _, _, _)
ShellCwdAfter(events, n, ran, cwd) ==
    LET e == NextEnter(events, n)
    IN  IF e = 0 \/ e > ran THEN cwd
        ELSE ShellCwdAfter(events, e, ran, CdResult(TypedBetween(events, n, e), cwd))

\* the window the last operation named, as it was when the operation was called
LastWindow == last.before[last.sn][WindowIndex(last.before[last.sn], last.wn)]

-----------------------------------------------------------------------------
(* Claims about get_status and extract_last_message_from_script *)

\* the ANSI-stripped text of the capture
Clean == StripAnsi(capture)

\* an idle prompt of the profile starts at position i of the text c
IdleIn(c, i) == IdlePromptEnd(agent_profile, c, i) # 0

\* an idle prompt of the profile starts at position i of the stripped text
IdleAt(i) == IdleIn(Clean, i)

HasIdlePrompt == LET c == Clean IN \E i \in 1..Len(c) : IdleIn(c, i)

\* a response-start marker starts at position i of c: ">" at the start of a line
MarkerIn(c, i) == c[i] = GT /\ (i = 1 \/ c[i - 1] = LF)

MarkerAt(i) == MarkerIn(Clean, i)

HasMarker == LET c == Clean IN \E i \in 1..Len(c) : MarkerIn(c, i)

\* the position right after the last response-start marker and the white
\* space that follows it (meaningful when HasMarker)
LastMarkerEnd ==
    LET c == Clean
        marker == CHOOSE i \in 1..Len(c) :
                      MarkerIn(c, i) /\ \A j \in (i + 1)..Len(c) : ~MarkerIn(c, j)
    IN  SkipSpace(c, marker + 1)

\* some idle prompt starts strictly after the end of the last marker
PromptAfterLastMarker ==
    LET c == Clean
        from == LastMarkerEnd
    IN  \E i \in (from + 1)..Len(c) : IdleIn(c, i)

\* the text between the last marker and the first idle prompt after it
\* (meaningful when HasMarker and PromptAfterLastMarker)
ReplySlice ==
    LET c == Clean
        from == LastMarkerEnd
    IN  SubSeq(c, from, First({i \in (from + 1)..Len(c) : IdleIn(c, i)}) - 1)

\* C4: get_status follows the priority order: ERROR on an empty capture; else
\* PROCESSING when the stripped text has no idle prompt; else ERROR on a known
\* error phrase; else WAITING_USER_ANSWER when the permission pattern matches;
\* else IDLE without a response-start marker; else COMPLETED or PROCESSING.
C4_PriorityOrder ==
    status # "none" =>
        IF capture = <<>> THEN status = "ERROR"
        ELSE IF ~HasIdlePrompt THEN status = "PROCESSING"
        ELSE IF HasErrorIndicator(Clean) THEN status = "ERROR"
        ELSE IF PermissionPromptMatches(agent_profile, Clean)
             THEN status = "WAITING_USER_ANSWER"
        ELSE IF ~HasMarker THEN status = "IDLE"
        ELSE status \in {"COMPLETED", "PROCESSING"}

\* C4 witness: a capture with an error phrase, a permission question and a
\* response-start marker but no idle prompt was classified PROCESSING
C4_Witness ==
    /\ status = "PROCESSING"
    /\ ~HasIdlePrompt
    /\ HasErrorIndicator(Clean)
    /\ Contains(Clean, ALLOW_THIS_ACTION)
    /\ HasMarker

\* C5: with an idle prompt, no error phrase, no permission match and a marker,
\* the status is COMPLETED exactly when some idle prompt starts strictly after
\* the end of the last marker, and PROCESSING otherwise, however many earlier
\* rounds the capture holds.
C5_PositionTieBreak ==
    (/\ status # "none"
     /\ HasIdlePrompt
     /\ ~HasErrorIndicator(Clean)
     /\ ~PermissionPromptMatches(agent_profile, Clean)
     /\ HasMarker) =>
        IF PromptAfterLastMarker THEN status = "COMPLETED" ELSE status = "PROCESSING"

\* C5 witness: a capture with an earlier finished round (an idle prompt before
\* the last marker) whose last round is finished too was classified COMPLETED
C5_Witness ==
    /\ status = "COMPLETED"
    /\ HasMarker
    /\ \E i \in 1..Len(Clean) : MarkerAt(i) /\ SkipSpace(Clean, i + 1) # LastMarkerEnd
    /\ \E i \in 1..Len(Clean) : IdleAt(i) /\ i < LastMarkerEnd
    /\ PromptAfterLastMarker

\* C6: on a capture that get_status classified COMPLETED the extractor does
\* not fail.
C6_CompletedImpliesExtractable ==
    (status = "COMPLETED" /\ extracted # NotExtracted) => extracted.ok

\* C6 witness: a capture classified COMPLETED whose reply is nothing but a
\* bell was extracted without a failure
C6_Witness ==
    /\ status = "COMPLETED"
    /\ extracted.ok
    /\ ReplySlice = <<BEL>>

\* a stale permission question: the question, an idle prompt after it, then
\* text that is not white space (the answer, further output), then a later
\* idle prompt; no question after the first of these prompts
StalePermission ==
    \E i, j \in 1..Len(Clean) :
        /\ IdleAt(i)
        /\ IdleAt(j)
        /\ i < j
        /\ FirstLit(Clean, 1, ALLOW_THIS_ACTION) \in 1..(i - 1)
        /\ FirstLit(Clean, i, ALLOW_THIS_ACTION) = 0
        /\ Strip(SubSeq(Clean, IdlePromptEnd(agent_profile, Clean, i), j - 1)) # <<>>

\* C7 (as claimed): on a capture with a stale permission question the
\* permission pattern does not match, and get_status does not return
\* WAITING_USER_ANSWER.
C7_StalePermissionIgnored ==
    (status # "none" /\ StalePermission) =>
        /\ ~PermissionPromptMatches(agent_profile, Clean)
        /\ status # "WAITING_USER_ANSWER"

\* C8: the text a successful extraction returns holds no ESC, no ANSI escape
\* sequence and no control character.
C8_ExtractedTextIsClean ==
    extracted.ok =>
        \A i \in 1..Len(extracted.text) :
            /\ extracted.text[i] # ESC
            /\ ~IsControl(extracted.text[i])
            /\ AnsiCodeEnd(extracted.text, i) = 0

\* C8 witness: a reply holding a lone ESC was extracted to a non-empty text
C8_Witness ==
    /\ extracted.ok
    /\ extracted.text # <<>>
    /\ HasMarker
    /\ PromptAfterLastMarker
    /\ \E i \in 1..Len(ReplySlice) : ReplySlice[i] = ESC

\* C9 (as claimed): the extractor never returns an empty text, and when the
\* reply is empty after the escape-fragment and control-character stripping
\* and trimming, it fails with EmptyResponse.
C9_NeverReturnsEmptyText ==
    /\ extracted.ok => extracted.text # <<>>
    /\ (/\ extracted # NotExtracted
        /\ HasMarker
        /\ PromptAfterLastMarker
        /\ Strip(StripControlChars(StripEscapeSequences(ReplySlice))) = <<>>)
           => extracted = Raised(EmptyResponse)

\* C10: the extractor fails with NoResponseFound when the stripped capture has
\* no response-start marker (with or without an idle prompt), and with
\* IncompleteResponse when a marker exists but no idle prompt starts strictly
\* after the end of the last marker.
C10_ExtractionFailures ==
    extracted # NotExtracted =>
        /\ ~HasMarker => extracted = Raised(NoResponseFound)
        /\ (HasMarker /\ ~PromptAfterLastMarker) => extracted = Raised(IncompleteResponse)

\* C10 witness: the only idle prompt after the last marker begins exactly
\* where the marker and its trailing white space end, and the extractor failed
\* with IncompleteResponse
C10_Witness ==
    /\ extracted = Raised(IncompleteResponse)
    /\ HasMarker
    /\ LastMarkerEnd <= Len(Clean)
    /\ IdleAt(LastMarkerEnd)

\* the first idle prompt that starts strictly after the end of the last marker
\* (meaningful when HasMarker and PromptAfterLastMarker)
FinalPromptStart ==
    LET c == Clean
        from == LastMarkerEnd
    IN  First({i \in (from + 1)..Len(c) : IdleIn(c, i)})

\* C11: a successful extraction is taken only from the text between the end of
\* the last response-start marker and the start of the first idle prompt after
\* it: the result is that slice, trimmed and cleaned, so it holds nothing of
\* an earlier round, of the text before the marker or of the text after that
\* idle prompt.
C11_OnlyLastRound ==
    extracted.ok =>
        /\ HasMarker
        /\ PromptAfterLastMarker
        /\ extracted.text =
               Strip(StripControlChars(StripEscapeSequences(StripAnsi(Strip(ReplySlice)))))

\* C11 witness: the capture holds an earlier finished round (a marker and an
\* idle prompt before the last marker), and text follows the idle prompt that
\* ends the last round; the extraction returned the last round's "Hi"
C11_Witness ==
    /\ extracted.ok
    /\ extracted.text = <<72, 105>>
    /\ \E i \in 1..Len(Clean) : MarkerAt(i) /\ SkipSpace(Clean, i + 1) # LastMarkerEnd
    /\ \E i \in 1..Len(Clean) : IdleAt(i) /\ i < LastMarkerEnd
    /\ LET after == IdlePromptEnd(agent_profile, Clean, FinalPromptStart)
       IN  after <= Len(Clean) /\ Strip(SubSeq(Clean, after, Len(Clean))) # <<>>


-----------------------------------------------------------------------------
(* Claims about the provider object *)

\* C23: get_status and extract_last_message_from_script are stateless: what
\* they return is the classification, or the extraction, of the capture they
\* were given, whatever was classified or extracted before; they leave the
\* provider's profile, patterns and initialized flag as they were; get_status
\* makes exactly one tmux_client call, get_history of the provider's session
\* and window with tail_lines passed through, and the extractor makes none.
C23_StatelessClassification ==
    /\ pcall.op \in {"get_status", "extract_last_message_from_script"} =>
           provider = pcall.before
    /\ pcall.op = "get_status" =>
           /\ Len(pcall.mux) = 1
           /\ pcall.mux[1].call = "get_history"
           /\ pcall.mux[1].session_name = pcall.before.session_name
           /\ pcall.mux[1].window_name = pcall.before.window_name
           /\ pcall.mux[1].tail_lines = pcall.tail_lines
           /\ pcall.ok => pcall.value = get_status(pcall.before.profile, pcall.capture)
    /\ pcall.op = "extract_last_message_from_script" =>
           /\ pcall.mux = <<>>
           /\ extracted = extract_last_message_from_script(pcall.before.profile,
                                                           pcall.capture)

\* C23 witness: a finished round was extracted from an earlier capture; the
\* pane printed a new marker, and get_status, called with tail_lines = 5,
\* classified the new capture PROCESSING
C23_Witness ==
    /\ pcall.op = "get_status"
    /\ pcall.tail_lines = Some(5)
    /\ pcall.capture = capture
    /\ pcall.value = "PROCESSING"
    /\ extracted.ok
    /\ extracted.text = <<72, 105>>

AllIn(c, lo, hi, P(_)) == \A k \in lo..hi : P(c[k])

\* the text c[lo..hi] is empty or a usage percentage: digits, "%", white space
PercentPart(c, lo, hi) ==
    \/ lo > hi
    \/ \E p \in (lo + 1)..hi :
           c[p] = PERCENT /\ AllIn(c, lo, p - 1, IsDigit) /\ AllIn(c, p + 1, hi, IsSpace)

\* the text c[lo..hi] is empty or the lambda glyph and white space
LambdaPart(c, lo, hi) ==
    \/ lo > hi
    \/ c[lo] = SMALL_LAMBDA /\ AllIn(c, lo + 1, hi, IsSpace)

\* the text c[lo..hi] is empty or "!"
BangPart(c, lo, hi) == lo > hi \/ (lo = hi /\ c[lo] = BANG)

\* the prompt of the profile, written literally, stands at position i of c:
\* "[profile]", white space, then each of the usage percentage, the lambda
\* glyph and "!" present or not, then ">"
LiteralPromptAt(profile, c, i) ==
    LET head == <<LBRACKET>> \o profile \o <<RBRACKET>>
        j == i + Len(head)
    IN  /\ LitAt(c, i, head)
        /\ \E g \in j..Len(c) :
               /\ c[g] = GT
               /\ \E a \in j..g :
                      /\ AllIn(c, j, a - 1, IsSpace)
                      /\ \E b \in a..g, e \in a..g :
                             /\ b <= e
                             /\ PercentPart(c, a, b - 1)
                             /\ LambdaPart(c, b, e - 1)
                             /\ BangPart(c, e, g - 1)

LiteralPromptIn(profile, c) == \E i \in 1..Len(c) : LiteralPromptAt(profile, c, i)

\* C24: the idle prompt is recognised for the provider's own profile only,
\* taken literally: on a capture that is not empty and holds no prompt of the
\* own profile (prompts of other profiles or none) get_status returns
\* PROCESSING; on a capture that holds the own prompt, with or without usage
\* percentage, lambda glyph, "!" and text after it, the prompt is found: the
\* status is IDLE when there is no marker, error phrase or permission
\* question, and never the PROCESSING of a missing prompt.
C24_OwnProfileLiteral ==
    (pcall.op = "get_status" /\ pcall.ok /\ pcall.capture # <<>>) =>
        LET c == StripAnsi(pcall.capture)
            own == LiteralPromptIn(pcall.before.profile, c)
            marker == \E i \in 1..Len(c) : MarkerIn(c, i)
        IN  /\ ~own => pcall.value = "PROCESSING"
            /\ (own /\ ~marker /\ ~HasErrorIndicator(c)
                    /\ ~PermissionPromptMatches(pcall.before.profile, c))
                   => pcall.value = "IDLE"
            /\ (own /\ marker) => pcall.value # "IDLE"

\* C24 witness: the provider of profile "d.v" classified a capture that holds
\* the prompt "[dev] 5% ", lambda, " !> Hi" of the profile "dev", and no prompt of
\* its own, PROCESSING
C24_Witness ==
    /\ pcall.op = "get_status"
    /\ pcall.before.profile = <<100, DOT, 118>>
    /\ pcall.capture = <<91, 100, 101, 118, 93, 32, 53, PERCENT, 32, SMALL_LAMBDA, 32, BANG,
                         GT, 32, 72, 105>>
    /\ pcall.value = "PROCESSING"

\* the characters a and b are the same letter in either case, or equal
SameLetter(a, b) ==
    \/ a = b
    \/ a \in 65..90 /\ b = a + 32
    \/ a \in 97..122 /\ b = a - 32

\* the text holds, at some position, the phrase written in any letter case
OccursInAnyCase(text, phrase) ==
    \E i \in 1..(Len(text) - Len(phrase) + 1) :
        \A j \in 1..Len(phrase) : SameLetter(text[i + j - 1], phrase[j])

\* C12: when the stripped capture contains an idle prompt, an occurrence of a
\* known error phrase anywhere in the capture, in any letter case, makes
\* get_status return ERROR, whatever else (permission question, marker,
\* later prompt) the capture holds.
C12_ErrorPhrasePrecedence ==
    (/\ status # "none"
     /\ \E k \in 1..Len(ERROR_INDICATORS) : OccursInAnyCase(capture, ERROR_INDICATORS[k])
     /\ HasIdlePrompt)
        => status = "ERROR"

\* C12 witness: the phrase occurs in upper case only, in a capture on which
\* the permission pattern matches as well, and the status is ERROR
C12_Witness ==
    /\ status = "ERROR"
    /\ HasIdlePrompt
    /\ ~Contains(Clean, ERROR_INDICATORS[1])
    /\ OccursInAnyCase(capture, ERROR_INDICATORS[1])
    /\ PermissionPromptMatches(agent_profile, Clean)

\* the screen of a pane in which a question is pending: the idle prompt with
\* the question "Hi" echoed on its line, after zero or one finished round
\* (prompt, question, marker, reply, prompt) still in the buffer, followed by
\* what the agent has drawn of its answer so far: nothing, the response-start
\* marker, or the marker and the reply; no new idle prompt is drawn
PendingScreens ==
    LET prompt == <<91, 100, 101, 118, 93, 62, 32>>
        question == <<72, 105>>
        marker == <<10, 62, 32>>
        reply == <<72, 105>>
        round == prompt \o question \o marker \o reply \o <<10>>
    IN  { earlier \o prompt \o question \o drawn :
              earlier \in {<<>>, round},
              drawn \in {<<>>, marker, marker \o reply} }

\* C26: every capture taken after a question was submitted on the last idle
\* prompt and before a new idle prompt is drawn is classified neither
\* COMPLETED nor IDLE, even when an earlier finished round is in the buffer.
C26_ProcessingWhilePending ==
    (status # "none" /\ capture \in PendingScreens)
        => status \notin {"COMPLETED", "IDLE"}

\* the reply of the finished round in the capture: what lies between the
\* marker "> " and the line of the idle prompt
ReplyText == SubSeq(capture, 3, Len(capture) - 8)

\* C27: for a reply that holds no escape sequence and no control character
\* other than line feeds, the extractor returns the reply trimmed and
\* otherwise unchanged: bracketed text such as [x] and the line structure are
\* kept.
C27_ReplyKeptVerbatim ==
    (extracted # NotExtracted /\ Strip(ReplyText) # <<>>)
        => extracted = Returned(Strip(ReplyText))

\* C28: send_keys is all-or-nothing towards the pane: when a call has raised,
\* its target pane has received no part of the text and no Enter keystroke.
C28_AllOrNothing ==
    \A c \in Callers :
        (Finished(c) /\ ret[c] # "returned") =>
            \A k \in 1..Len(pane[target(c)]) :
                /\ pane[target(c)][k].kind = "paste"
                /\ pane[target(c)][k].data = <<>>

\* C29: the extractor succeeds only on captures the classifier treats as
\* finished rounds: on a capture classified IDLE it fails with
\* NoResponseFound, on a capture classified PROCESSING it fails with
\* NoResponseFound or IncompleteResponse, and a successful extraction implies
\* the status COMPLETED, ERROR or WAITING_USER_ANSWER.
C29_SuccessOnlyOnFinishedRounds ==
    extracted # NotExtracted =>
        /\ status = "IDLE" => extracted = Raised(NoResponseFound)
        /\ status = "PROCESSING" =>
               extracted \in {Raised(NoResponseFound), Raised(IncompleteResponse)}
        /\ extracted.ok => status \in {"COMPLETED", "ERROR", "WAITING_USER_ANSWER"}

\* C29 witness: a capture that holds an idle prompt and, after it, a marker
\* followed by text was classified PROCESSING, and the extractor failed with
\* IncompleteResponse
C29_Witness ==
    /\ status = "PROCESSING"
    /\ extracted = Raised(IncompleteResponse)
    /\ HasIdlePrompt
    /\ HasMarker
    /\ LastMarkerEnd <= Len(Clean)

\* C30: captures are not serialized against injections.  While a send_keys
\* call is in flight a get_history of the same pane can always be made, and
\* one that is made between the paste step and the Enter step returns a
\* capture that contains the pasted text, which has not been submitted yet.
C30_CaptureSeesPartialInjection ==
    /\ [](\A c \in SequentialCallers :
              pc[c] # "idle" =>
                  ENABLED PaneGetHistory(session_name[c], window_name[c], None, "ok"))
    /\ [][\A c \in SequentialCallers :
              (/\ pc[c] = "submit"
               /\ pc'[c] = "submit"
               /\ last' # last
               /\ last'.op = "get_history"
               /\ last'.ok
               /\ last'.sn = session_name[c]
               /\ last'.wn = window_name[c])
                  => Contains(last'.value, keys[c])]_vars

\* C30 witness: a send_keys call has pasted its text and not yet sent Enter,
\* and the get_history made last on its pane returned the pasted text
C30_Witness ==
    \E c \in SequentialCallers :
        /\ pc[c] = "submit"
        /\ keys[c] # <<>>
        /\ last.op = "get_history"
        /\ last.ok
        /\ last.sn = session_name[c]
        /\ last.wn = window_name[c]
        /\ last.value = keys[c]
        /\ \A k \in 1..Len(pane[target(c)]) : pane[target(c)][k].kind = "paste"

====
